---------------------------- MODULE Spec2Model ----------------------------
(***************************************************************************)
(* A model of TikD-R's downloader (src/src/downloader.rs): the retry loop  *)
(* download_one, the fan-out download_all, one pipeline attempt            *)
(* download_once, and the HLS media-playlist writer                        *)
(* persist_media_playlist.                                                 *)
(*                                                                         *)
(* Several specifications share the module.  Each one drives its own      *)
(* group of variables and leaves the other groups at their idle values:    *)
(*   SpecOne   one call of download_one             (one_* variables)      *)
(*   Spec      download_all over a list of URLs     (urls, cfg, pc, ...)   *)
(*   SpecOnce  one call of download_once            (oc_* variables)       *)
(*   SpecHls   one call of persist_media_playlist   (h_* variables)        *)
(*   SpecVariant  one call of select_best_variant   (sv_* variables)       *)
(*   SpecCalls    one call of guess_video_id, sanitize_component,          *)
(*                build_output_path or extract_attribute                   *)
(*                                                  (call_* variables)     *)
(*   SpecFiles    gather_urls on a URL file, then the pipelines of         *)
(*                download_all and the output files they hold open         *)
(*                                  (cli_file, gathered, w_* variables)    *)
(*   SpecTry      download_one with every step of its download_once calls  *)
(*                and the output file they share                           *)
(*                              (one_*, oc_* variables and try_before)     *)
(*   SpecRun      run: download_all over URLs whose download_once results  *)
(*                are fixed in advance, the report lines, the summary and  *)
(*                the exit status                   (r_* variables)        *)
(*   SpecExtract  one URL's pipeline up to the end of descriptor           *)
(*                extraction, with its retries      (ex_* variables)       *)
(***************************************************************************)
EXTENDS Integers, Sequences, FiniteSets, TLC

VARIABLES
    \* ---- download_one (SpecOne) ----
    one_cfg,        \* the DownloadConfig of the call
    one_pc,         \* "idle" | "attempting" | "backoff" | "ok" | "failed" | "panicked"
    one_attempt,    \* the local `attempt`: failed attempts counted so far
    one_calls,      \* number of download_once calls made
    one_sleeps,     \* number of backoff sleeps started
    one_slept,      \* the last backoff_ms passed to sleep (a u64), NoSleep before
    one_err,        \* the error of the last failed download_once, NoError before
    one_ret         \* the value download_one returned, NoError before

oneVars == <<one_cfg, one_pc, one_attempt, one_calls, one_sleeps, one_slept,
             one_err, one_ret>>

VARIABLES
    \* ---- download_all (Spec) ----
    urls,           \* the input slice, a sequence of URL strings
    cfg,            \* self.config
    da_pc,          \* "idle" | "running" | "returned" | "panicked"
    started,        \* how many URLs the buffered stream has pulled and started
    pc,             \* per input index: "queued" | "attempting" | "backoff" | "done"
    attempt,        \* per input index: download_one's local `attempt` (0 once
                    \* the future has completed and is dropped)
    results,        \* the Vec<(usize, DownloadReport)> in arrival order
    reports         \* the returned Vec<DownloadReport>, <<>> before the return

allVars == <<urls, cfg, da_pc, started, pc, attempt, results, reports>>

VARIABLES
    \* ---- download_once (SpecOnce) ----
    oc_url,         \* share_url, a string (sequence of characters)
    oc_pc,          \* "idle" | "extract" | "mkdir" | "binary_send" | "binary_body"
                    \* | "hls" | "done"
    oc_desc,        \* the VideoDescriptor extracted, NoDescriptor before
    oc_path,        \* output_path, the empty string before build_output_path
    oc_file,        \* the file at output_path: [exists, data]
    oc_chunks,      \* body chunks of the direct response written so far
    oc_direct,      \* download_binary calls made
    oc_direct_err,  \* the error download_binary returned, NoError if none
    oc_status,      \* the status of the response download_binary received, 0
                    \* without a response
    oc_hls,         \* download_hls_stream calls made
    oc_ret          \* the value download_once returned, NoError before

onceVars == <<oc_url, oc_pc, oc_desc, oc_path, oc_file, oc_chunks, oc_direct,
              oc_direct_err, oc_status, oc_hls, oc_ret>>

VARIABLES
    \* ---- persist_media_playlist (SpecHls) ----
    h_playlist,     \* playlist_body.lines(): a sequence of strings
    h_pc,           \* "idle" | "create" | "lines" | "done"
    h_line,         \* 1-based number of the line the loop is at (0 before
                    \* the output file is created)
    h_file,         \* the file at output_path: [exists, data]
    h_had_segment,  \* had_segment
    h_segment_count,\* segment_count
    h_fetched,      \* the URLs write_segment has requested, in order
    h_ret           \* the value returned, NoError before

hlsVars == <<h_playlist, h_pc, h_line, h_file, h_had_segment, h_segment_count,
             h_fetched, h_ret>>

VARIABLES
    \* ---- select_best_variant (SpecVariant) ----
    sv_playlist,    \* playlist.lines(): a sequence of strings
    sv_pc,          \* "idle" | "scan" | "done"
    sv_pos,         \* number of lines the `lines` iterator has yielded
    sv_best,        \* best: None or Some([bw, url])
    sv_count,       \* variant_count
    sv_ret          \* the Option<Url> returned, None before

variantVars == <<sv_playlist, sv_pc, sv_pos, sv_best, sv_count, sv_ret>>

VARIABLES
    \* ---- extract_video_descriptor inside download_one (SpecExtract) ----
    ex_url,         \* share_url
    ex_cfg,         \* the DownloadConfig of the Downloader
    ex_pc,          \* "idle" | "check" | "send" | "text" | "parse" | "returned"
                    \* | "sleep" | "done"
    ex_pipe,        \* the pipeline: "idle" | "attempting" | "backoff"
                    \* | "extracted" | "failed" | "panicked"
    ex_attempt,     \* download_one's local `attempt`
    ex_requests,    \* HTTP requests issued for the share page, all attempts
    ex_status,      \* status of this attempt's response, 0 before it
    ex_html,        \* Some(page read from the response), None before
    ex_parsed,      \* what parse_share_page returned, NotParsed before
    ex_ret          \* what extract_video_descriptor returned: OkResult or an
                    \* error, NoError before

extractVars == <<ex_url, ex_cfg, ex_pc, ex_pipe, ex_attempt, ex_requests,
                 ex_status, ex_html, ex_parsed, ex_ret>>

VARIABLES
    \* ---- one call of a pure function (SpecCalls) ----
    call_fn,        \* the function called: "guess_video_id"
                    \* | "sanitize_component" | "build_output_path"
                    \* | "extract_attribute", "none" if idle
    call_pc,        \* "idle" | "called" | "returned"
    call_in,        \* the argument
    call_out        \* the value returned, None before

callVars == <<call_fn, call_pc, call_in, call_out>>

VARIABLES
    \* ---- gather_urls and the pipelines' output files (SpecFiles) ----
    cli_file,       \* the lines of the file given with --file
    gathered,       \* what gather_urls returned: [err, urls]
    w_cfg,          \* the DownloadConfig of the Downloader
    w_pc,           \* "idle" | "gather" | "running" | "returned" | "exit"
    w_started,      \* how many URLs the buffered stream has started
    w_state         \* per URL: "queued" | "attempting" | "writing" | "finished"

filesVars == <<cli_file, gathered, w_cfg, w_pc, w_started, w_state>>

VARIABLES
    \* ---- run: download_all, then the report lines and the exit (SpecRun) ----
    r_urls,         \* the URLs gather_urls returned
    r_cfg,          \* the DownloadConfig built from the command line
    r_fate,         \* per URL: what its download_once calls will return
    r_pc,           \* "idle" | "downloading" | "printing" | "summary" | "exited"
                    \* | "panicked"
    r_started,      \* how many URLs the buffered stream has started
    r_state,        \* per URL: "queued" | "attempting" | "backoff" | "done"
                    \* | "panicked"
    r_calls,        \* per URL: download_once calls made
    r_results,      \* the Vec<(usize, DownloadReport)> in arrival order
    r_reports,      \* what download_all returned, <<>> before
    r_lines,        \* the lines printed so far, in order
    r_succeeded,    \* succeeded
    r_failed,       \* failed
    r_ret,          \* what run returned: OkResult or an error, NoError before
    r_exit          \* the exit status of the process, -1 while it runs

runVars == <<r_urls, r_cfg, r_fate, r_pc, r_started, r_state, r_calls,
             r_results, r_reports, r_lines, r_succeeded, r_failed, r_ret,
             r_exit>>

VARIABLES
    \* ---- download_one with download_once inside (SpecTry) ----
    try_before      \* the file at output_path as the current attempt found it

tryVars == <<try_before>>

\* The variables of the specifications of download_one, download_all,
\* download_once and persist_media_playlist.
coreVars == <<oneVars, allVars, onceVars, hlsVars>>

\* The variables of the other specifications.
restVars == <<variantVars, extractVars, callVars, filesVars, runVars, tryVars>>

\* What the actions of one of these specifications leave unchanged.
notVariant == <<coreVars, extractVars, callVars, filesVars, runVars, tryVars>>
notExtract == <<coreVars, variantVars, callVars, filesVars, runVars, tryVars>>
notCalls == <<coreVars, variantVars, extractVars, filesVars, runVars, tryVars>>
notFiles == <<coreVars, variantVars, extractVars, callVars, runVars, tryVars>>
notRun == <<coreVars, variantVars, extractVars, callVars, filesVars, tryVars>>
notTry == <<variantVars, extractVars, callVars, filesVars, runVars>>

vars == <<coreVars, restVars>>

----------------------------------------------------------------------------
(* Bounds of the model *)

\* Largest max_retries tried by SpecOne; 65 failed attempts are needed for
\* the shift amount attempt - 1 to reach the width of u64.
MaxRetries == 65

\* SpecOne also runs every retry budget 0..SmallRetries.
SmallRetries == 2

\* download_all: longest URL list, largest retry budget and largest
\* max_concurrent_downloads tried by Spec.
MaxUrls == 3
MaxFanRetries == 1
MaxConcurrent == 2

\* download_binary: most body chunks a direct response delivers.
MaxChunks == 2

\* persist_media_playlist: most lines of a playlist.
MaxLines == 3

\* select_best_variant: most lines of a master playlist.
MaxVariantLines == 4

\* guess_video_id: most path segments of a share URL.
MaxSegments == 3

\* sanitize_component: longest input string.
MaxInput == 3

\* build_output_path: longest video id and author.
MaxComponent == 2

\* gather_urls: most lines of the URL file; and the largest
\* max_concurrent_downloads tried by SpecFiles.
MaxFileLines == 3
MaxWriters == 2

\* Descriptor extraction: largest retry budget tried by SpecExtract.
MaxExtractRetries == 1

\* run: longest URL list tried by SpecRun.
MaxRunUrls == 2

\* download_one around download_once: largest retry budget tried by SpecTry.
MaxTryRetries == 1

----------------------------------------------------------------------------
(* crate::error::Error, and the reqwest::Error a Network error wraps *)

\* HTTP statuses an error can carry: reqwest's error_for_status makes a
\* Status error for 4xx and 5xx responses only.
StatusCodes == {400, 401, 403, 404, 410, 423, 429, 451, 500, 503}

MkErr(kind, rk, status, timeout, connect) ==
    [kind |-> kind, rk |-> rk, status |-> status, timeout |-> timeout,
     connect |-> connect]

PlainErr(kind) == MkErr(kind, "none", 0, FALSE, FALSE)

NoError == PlainErr("none")

\* reqwest::Error by kind.  Only a Status error carries a status, and it has
\* no source, so it is never a timeout or a connect error.
NetStatus(code) == MkErr("Network", "Status", code, FALSE, FALSE)

NetworkErrors ==
    {MkErr("Network", "Builder", 0, FALSE, FALSE),
     MkErr("Network", "Redirect", 0, FALSE, FALSE),
     MkErr("Network", "Decode", 0, FALSE, FALSE)}
    \cup {MkErr("Network", "Request", 0, t, c) : t \in BOOLEAN, c \in BOOLEAN}
    \cup {MkErr("Network", "Body", 0, t, FALSE) : t \in BOOLEAN}
    \cup {NetStatus(code) : code \in StatusCodes}

\* The errors a download_once call can return.
OnceErrors ==
    NetworkErrors
    \cup {PlainErr("Io"), PlainErr("InvalidUrl"), PlainErr("VideoUrlNotFound"),
          PlainErr("UnsupportedStream")}

\* Every variant of Error.
AllErrors ==
    OnceErrors
    \cup {PlainErr("Parsing"), PlainErr("InputConflict"), PlainErr("MissingInput"),
          PlainErr("EmptyUrlFile"), PlainErr("DownloadSummary")}

is_timeout(e) == e.timeout
is_connect(e) == e.connect
is_body(e) == e.rk = "Body"
is_builder(e) == e.rk = "Builder"
has_status(e) == e.rk = "Status"
is_server_error(code) == code >= 500 /\ code <= 599
is_client_error(code) == code >= 400 /\ code <= 499

\* should_retry with 403 left out of the retryable statuses.
should_retry_no403(err) ==
    CASE err.kind = "Network" ->
            IF is_timeout(err) \/ is_connect(err) \/ is_body(err) THEN TRUE
            ELSE IF has_status(err)
                 THEN err.status = 429 \/ is_server_error(err.status)
                 ELSE TRUE
      [] err.kind \in {"Io", "Parsing"} -> TRUE
      [] OTHER -> FALSE

\* should_retry with VideoUrlNotFound classified retryable.
should_retry_notfound(err) ==
    CASE err.kind = "Network" ->
            IF is_timeout(err) \/ is_connect(err) \/ is_body(err) THEN TRUE
            ELSE IF has_status(err)
                 THEN err.status = 429 \/ err.status = 403
                      \/ is_server_error(err.status)
                 ELSE TRUE
      [] err.kind \in {"Io", "Parsing", "VideoUrlNotFound"} -> TRUE
      [] OTHER -> FALSE

should_retry(err) ==
    CASE err.kind = "Network" ->
            IF is_timeout(err) \/ is_connect(err) \/ is_body(err) THEN TRUE
            ELSE IF has_status(err)
                 THEN err.status = 429 \/ err.status = 403
                      \/ is_server_error(err.status)
                 ELSE TRUE
      [] err.kind \in {"Io", "Parsing"} -> TRUE
      [] OTHER -> FALSE

should_try_hls_fallback(err) ==
    IF err.kind = "Network"
    THEN (has_status(err) /\ err.status \in {403, 401, 404, 410, 423, 451})
         \/ is_builder(err)
    ELSE FALSE

----------------------------------------------------------------------------
(* u64 arithmetic.  A u64 is held as m * 2^e with m odd (or 0), or as the  *)
(* value 2^64 - 1 (max = TRUE); initial_backoff_ms * 2^k is always one of  *)
(* these, and the representation is unique, so = is equality of numbers.   *)

U64Bits == 64

U64(m, e) == [max |-> FALSE, m |-> m, e |-> e]
U64Max == [max |-> TRUE, m |-> 0, e |-> 0]
U64Zero == U64(0, 0)

RECURSIVE BitLen(_)
BitLen(m) == IF m = 0 THEN 0 ELSE 1 + BitLen(m \div 2)

\* m * 2^e as a u64 if it fits, U64Max otherwise: the value of a
\* saturating multiplication whose exact result is m * 2^e.
SatPow2(m, e) ==
    IF m = 0 THEN U64Zero
    ELSE IF BitLen(m) + e > U64Bits THEN U64Max
    ELSE U64(m, e)

\* u64::saturating_mul(a, 2^k)
saturating_mul_pow2(a, k) ==
    IF a.max THEN U64Max
    ELSE SatPow2(a.m, a.e + k)

\* The outcomes of `1u64 << n` for a usize n: the exponent k of the result
\* 2^k.  For n >= 64 the operation overflows: a build with overflow checks
\* panics, a build without them masks the shift amount to six bits.
ShlOutcomes(n) ==
    IF n < U64Bits
    THEN {[panic |-> FALSE, k |-> n]}
    ELSE {[panic |-> TRUE, k |-> 0], [panic |-> FALSE, k |-> n % U64Bits]}

\* usize::saturating_sub
saturating_sub(a, b) == IF a >= b THEN a - b ELSE 0

\* The values of backoff_ms after the att-th failure: PanicOutcome when
\* the shift panics.
PanicOutcome == [panic |-> TRUE, ms |-> U64Zero]

BackoffOutcomes(config, att) ==
    {IF s.panic THEN PanicOutcome
     ELSE [panic |-> FALSE,
           ms |-> saturating_mul_pow2(config.initial_backoff_ms, s.k)]
     : s \in ShlOutcomes(saturating_sub(att, 1))}

----------------------------------------------------------------------------
(* Strings are sequences of one-character strings. *)

Digits == {"0", "1", "2", "3", "4", "5", "6", "7", "8", "9"}
LowerCase == {"a", "b", "c", "d", "e", "f", "g", "h", "i", "j", "k", "l", "m",
              "n", "o", "p", "q", "r", "s", "t", "u", "v", "w", "x", "y", "z"}
UpperCase == {"A", "B", "C", "D", "E", "F", "G", "H", "I", "J", "K", "L", "M",
              "N", "O", "P", "Q", "R", "S", "T", "U", "V", "W", "X", "Y", "Z"}

\* char::is_alphanumeric, which holds of letters outside ASCII too.
is_alphanumeric(c) == c \in Digits \cup LowerCase \cup UpperCase \cup {"é"}

\* char::is_ascii_alphanumeric
is_ascii_alphanumeric(c) == c \in Digits \cup LowerCase \cup UpperCase

\* str::starts_with
starts_with(s, prefix) ==
    Len(s) >= Len(prefix) /\ SubSeq(s, 1, Len(prefix)) = prefix

\* str::find: the 1-based position of the first occurrence of `needle` in
\* `s`, 0 if there is none.
find(s, needle) ==
    LET hits == {i \in 1..(Len(s) - Len(needle) + 1) :
                    SubSeq(s, i, i + Len(needle) - 1) = needle}
    IN  IF hits = {} THEN 0 ELSE CHOOSE i \in hits : \A j \in hits : i <= j

\* A test that every string passes.
contains_anything(s, needle) == TRUE
\* str::contains
contains(s, needle) == find(s, needle) # 0

\* Option<T>: None is the empty sequence, Some(x) the sequence <<x>>.
None == <<>>
Some(x) == <<x>>
is_some(o) == o # <<>>
----------------------------------------------------------------------------
(* DownloadConfig *)

MkConfig(r, b, c) ==
    [max_retries |-> r, initial_backoff_ms |-> b, max_concurrent_downloads |-> c]

\* initial_backoff_ms: 0, 1, the default 500 = 125 * 2^2, 2^62 and 2^64 - 1.
BackoffChoices == {U64Zero, U64(1, 0), U64(125, 2), U64(1, 62), U64Max}

----------------------------------------------------------------------------
(* download_one: the retry loop around download_once *)

NoSleep == [panic |-> FALSE, ms |-> U64Zero]
OkResult == PlainErr("ok")

\* What download_one does with the result of one download_once call: the
\* next value of (pc, attempt, slept, ret).  `res` is OkResult or an error.
AfterOnce(config, att, res) ==
    IF res = OkResult
    THEN {[pc |-> "ok", attempt |-> att, slept |-> NoSleep, ret |-> OkResult]}
    ELSE IF att + 1 > config.max_retries \/ ~should_retry(res)
         THEN {[pc |-> "failed", attempt |-> att + 1, slept |-> NoSleep,
                ret |-> res]}
         ELSE {[pc |-> IF b.panic THEN "panicked" ELSE "backoff",
                attempt |-> att + 1, slept |-> b, ret |-> NoError]
               : b \in BackoffOutcomes(config, att + 1)}

OneConfigs ==
    {MkConfig(r, b, 1) : r \in (0..SmallRetries) \cup {MaxRetries},
                         b \in BackoffChoices}

\* One pass of the loop body: download_once returns `res`, and the match
\* arm returns, panics, or starts the backoff sleep.
OneAttempt ==
    /\ one_pc = "attempting"
    /\ \E res \in OnceErrors \cup {OkResult} :
         \E nxt \in AfterOnce(one_cfg, one_attempt, res) :
            /\ one_pc' = nxt.pc
            /\ one_attempt' = nxt.attempt
            /\ one_calls' = one_calls + 1
            /\ one_err' = IF res = OkResult THEN one_err ELSE res
            /\ one_ret' = nxt.ret
            /\ one_slept' = IF nxt.pc \in {"backoff", "panicked"}
                            THEN nxt.slept ELSE one_slept
            /\ one_sleeps' = IF nxt.pc = "backoff" THEN one_sleeps + 1
                             ELSE one_sleeps
    /\ UNCHANGED <<one_cfg, allVars, onceVars, hlsVars, restVars>>

\* The backoff sleep ends and the loop runs download_once again.
OneWake ==
    /\ one_pc = "backoff"
    /\ one_pc' = "attempting"
    /\ UNCHANGED <<one_cfg, one_attempt, one_calls, one_sleeps, one_slept,
                   one_err, one_ret, allVars, onceVars, hlsVars, restVars>>

NextOne == OneAttempt \/ OneWake

----------------------------------------------------------------------------
(* download_all: the fan-out over the input URLs *)

Urls == {"a", "b"}

RECURSIVE SeqsUpTo(_, _)
SeqsUpTo(S, n) ==
    IF n = 0 THEN {<<>>}
    ELSE LET shorter == SeqsUpTo(S, n - 1)
         IN  shorter \cup {Append(q, x) : q \in {r \in shorter : Len(r) = n - 1},
                                          x \in S}

\* The download_once results the fan-out draws from: success, a retryable
\* error and a fatal error.
FanResults == {OkResult, NetStatus(503), PlainErr("VideoUrlNotFound")}

FanConfigs ==
    {MkConfig(r, U64(125, 2), c) : r \in 0..MaxFanRetries, c \in 0..MaxConcurrent}

\* A report that is a success whatever the pipeline returned.
DownloadReportSuccess(url, result) == [url |-> url, result |-> OkResult]

\* DownloadReport::success / DownloadReport::failure
DownloadReport(url, result) == [url |-> url, result |-> result]

\* Futures held by the buffered stream: started and not yet completed.
Active == {i \in 1..Len(urls) : pc[i] \in {"attempting", "backoff"}}

\* buffer_unordered(n) pulls the next future while it holds fewer than n.
\* A buffer that lets one future more in.
CanStartOneMore(n_active, config) == n_active <= config.max_concurrent_downloads

CanStart(n_active, config) == n_active < config.max_concurrent_downloads

\* Insert `x` into the idx-sorted sequence `s` after every entry whose idx is
\* not greater (the sort is stable).
RECURSIVE InsertByIdx(_, _)
InsertByIdx(s, x) ==
    IF s = <<>> THEN <<x>>
    ELSE IF s[Len(s)].idx <= x.idx THEN Append(s, x)
    ELSE Append(InsertByIdx(SubSeq(s, 1, Len(s) - 1), x), s[Len(s)])

RECURSIVE SortAcc(_, _)
SortAcc(acc, s) ==
    IF s = <<>> THEN acc ELSE SortAcc(InsertByIdx(acc, Head(s)), Tail(s))

\* results left in arrival order.
NoSort(s) == s

\* results.sort_by_key(|(idx, _)| *idx)
sort_by_key(s) == SortAcc(<<>>, s)

\* results.into_iter().map(|(_, report)| report).collect()
CollectReports(s) == [k \in 1..Len(s) |-> s[k].report]

\* The buffered stream pulls the next URL, in input order, and starts its
\* download_one future.
StartTask ==
    /\ da_pc = "running"
    /\ started < Len(urls)
    /\ CanStart(Cardinality(Active), cfg)
    /\ started' = started + 1
    /\ pc' = [pc EXCEPT ![started + 1] = "attempting"]
    /\ UNCHANGED <<urls, cfg, da_pc, attempt, results, reports, oneVars, onceVars,
                   hlsVars, restVars>>

\* The future of input index i runs download_once once.  When download_one
\* returns, the task builds (idx, report), the stream yields it and the
\* while-let loop pushes it onto results.
TaskAttempt(i) ==
    /\ da_pc = "running"
    /\ pc[i] = "attempting"
    /\ \E res \in FanResults :
         \E nxt \in AfterOnce(cfg, attempt[i], res) :
            /\ attempt' = [attempt EXCEPT ![i] = IF nxt.pc \in {"ok", "failed"}
                                                 THEN 0 ELSE nxt.attempt]
            /\ pc' = [pc EXCEPT ![i] = IF nxt.pc \in {"ok", "failed"} THEN "done"
                                       ELSE IF nxt.pc = "backoff" THEN "backoff"
                                       ELSE @]
            /\ da_pc' = IF nxt.pc = "panicked" THEN "panicked" ELSE da_pc
            /\ results' = IF nxt.pc \in {"ok", "failed"}
                          THEN Append(results,
                                      [idx |-> i - 1,
                                       report |-> DownloadReport(urls[i], nxt.ret)])
                          ELSE results
    /\ UNCHANGED <<urls, cfg, started, reports, oneVars, onceVars,
                   hlsVars, restVars>>

\* The backoff sleep of input index i ends.
TaskWake(i) ==
    /\ da_pc = "running"
    /\ pc[i] = "backoff"
    /\ pc' = [pc EXCEPT ![i] = "attempting"]
    /\ UNCHANGED <<urls, cfg, da_pc, started, attempt, results, reports, oneVars, onceVars,
                   hlsVars, restVars>>

\* The stream is exhausted (or urls is empty): sort by index, drop the
\* indices and return.
Return ==
    /\ da_pc = "running"
    /\ started = Len(urls)
    /\ Active = {}
    /\ reports' = CollectReports(sort_by_key(results))
    /\ da_pc' = "returned"
    /\ UNCHANGED <<urls, cfg, started, pc, attempt, results, oneVars, onceVars,
                   hlsVars, restVars>>

----------------------------------------------------------------------------
(* download_once: one attempt of the pipeline for one share URL *)

\* VideoDescriptor
MkDescriptor(video_id, author, download_url, play_url) ==
    [video_id |-> video_id, author |-> author, download_url |-> download_url,
     play_url |-> play_url]

NoDescriptor == MkDescriptor(<<>>, <<>>, None, None)

ShareUrls == {<<"h", "t", "t", "p", "s", ":", "/", "/", "w", "w", "w", ".", "t", "i", "k", "t", "o", "k", ".", "c", "o", "m", "/", "@", "u", "/", "v", "i", "d", "e", "o", "/", "7">>, <<"h", "t", "t", "p", "s", ":", "/", "/", "e", "x", "a", "m", "p", "l", "e", ".", "c", "o", "m", "/">>}
VideoIds == {<<"v", "7">>, <<"!", "@">>, <<>>}
Authors == {<<"@", "u", " ", "n">>, <<>>}
DirectUrl == <<"h", "t", "t", "p", "s", ":", "/", "/", "c", "d", "n", "/", "v", ".", "m", "p", "4">>
PlayUrl == <<"h", "t", "t", "p", "s", ":", "/", "/", "c", "d", "n", "/", "p", ".", "m", "3", "u", "8">>

\* The descriptors the extractor can build: build_descriptor_from_value and
\* build_descriptor_from_item return None when both URLs are absent.
Descriptors ==
    {d \in {MkDescriptor(v, a, du, pu) :
                v \in VideoIds, a \in Authors,
                du \in {None, Some(DirectUrl)}, pu \in {None, Some(PlayUrl)}} :
        is_some(d.download_url) \/ is_some(d.play_url)}

\* Errors of client.get(..).send().await: no response was received.
SendErrors ==
    {MkErr("Network", "Builder", 0, FALSE, FALSE),
     MkErr("Network", "Redirect", 0, FALSE, FALSE)}
    \cup {MkErr("Network", "Request", 0, t, c) : t \in BOOLEAN, c \in BOOLEAN}

\* Errors of reading a response body (chunk(), text()).
BodyErrors ==
    {MkErr("Network", "Decode", 0, FALSE, FALSE)}
    \cup {MkErr("Network", "Body", 0, t, FALSE) : t \in BOOLEAN}

\* Statuses of a response that was received.
ResponseStatuses == {200, 206, 304} \cup StatusCodes

\* Response::error_for_status: the error for a 4xx or 5xx status, NoError
\* for any other status.
error_for_status(status) ==
    IF is_client_error(status) \/ is_server_error(status)
    THEN NetStatus(status) ELSE NoError

\* Scraper::extract_video_descriptor: the results for `share_url`.
ExtractOutcomes(share_url) ==
    IF ~contains(share_url, <<"t", "i", "k", "t", "o", "k", ".", "c", "o", "m">>)
    THEN {[err |-> PlainErr("InvalidUrl"), desc |-> NoDescriptor]}
    ELSE {[err |-> e, desc |-> NoDescriptor] :
             e \in SendErrors \cup {NetStatus(c) : c \in StatusCodes}
                   \cup BodyErrors \cup {PlainErr("VideoUrlNotFound")}}
         \cup {[err |-> NoError, desc |-> d] : d \in Descriptors}

\* sanitize_component
sanitize_component(input) ==
    SelectSeq(input, LAMBDA c : is_ascii_alphanumeric(c) \/ c \in {"-", "_", "."})

\* build_output_path without the "unknown" directory for an empty author.
build_output_path_no_default(descriptor) ==
    LET video == sanitize_component(descriptor.video_id)
        author == sanitize_component(descriptor.author)
    IN  IF video = <<>>
        THEN [err |-> PlainErr("InvalidUrl"), path |-> <<>>]
        ELSE [err |-> NoError, path |-> author \o <<"/">> \o video \o <<".", "m", "p", "4">>]

\* build_output_path: [err, path]
build_output_path(descriptor) ==
    LET video == sanitize_component(descriptor.video_id)
        author == sanitize_component(descriptor.author)
        author_dir == IF author = <<>> THEN <<"u", "n", "k", "n", "o", "w", "n">> ELSE author
    IN  IF video = <<>>
        THEN [err |-> PlainErr("InvalidUrl"), path |-> <<>>]
        ELSE [err |-> NoError, path |-> author_dir \o <<"/">> \o video \o <<".", "m", "p", "4">>]

\* The file at output_path.
MkFile(exists, data) == [exists |-> exists, data |-> data]
NoFile == MkFile(FALSE, <<>>)
OldFile == MkFile(TRUE, <<"old">>)
\* A create that opens the file without truncating it: stale bytes stay.
OpenedFile == MkFile(TRUE, <<"old">>)

\* tokio::fs::File::create: the file exists and is empty.
CreatedFile == MkFile(TRUE, <<>>)

\* The match arm for a failed download_binary: retry through the HLS path
\* when a play_url is present and the error is fallback-eligible, return
\* the error otherwise.
\* The arm with every Network error taken as fallback-eligible.
AfterDirectFailureAnyNetwork(descriptor, err) ==
    IF is_some(descriptor.play_url) /\ err.kind = "Network"
    THEN [pc |-> "hls", ret |-> NoError]
    ELSE [pc |-> "done", ret |-> err]

AfterDirectFailure(descriptor, err) ==
    IF is_some(descriptor.play_url) /\ should_try_hls_fallback(err)
    THEN [pc |-> "hls", ret |-> NoError]
    ELSE [pc |-> "done", ret |-> err]

\* extract_video_descriptor(share_url).await?, then build_output_path?.
OnceExtract ==
    /\ oc_pc = "extract"
    /\ \E out \in ExtractOutcomes(oc_url) :
         LET built == build_output_path(out.desc)
             err == IF out.err # NoError THEN out.err ELSE built.err
         IN  /\ oc_pc' = IF err # NoError THEN "done" ELSE "mkdir"
             /\ oc_ret' = err
             /\ oc_desc' = IF err # NoError THEN oc_desc ELSE out.desc
             /\ oc_path' = IF err # NoError THEN oc_path ELSE built.path
    /\ UNCHANGED <<oc_url, oc_file, oc_chunks, oc_direct, oc_direct_err,
                   oc_status, oc_hls, oneVars, allVars, hlsVars, restVars>>

\* create_dir_all(parent).await?, then the choice between the direct
\* download, the HLS path and VideoUrlNotFound.
OnceCreateDir ==
    /\ oc_pc = "mkdir"
    /\ \E ok \in BOOLEAN :
         /\ oc_pc' = IF ~ok THEN "done"
                     ELSE IF is_some(oc_desc.download_url) THEN "binary_send"
                     ELSE IF is_some(oc_desc.play_url) THEN "hls"
                     ELSE "done"
         /\ oc_ret' = IF ~ok THEN PlainErr("Io")
                      ELSE IF is_some(oc_desc.download_url)
                              \/ is_some(oc_desc.play_url) THEN NoError
                      ELSE PlainErr("VideoUrlNotFound")
    /\ UNCHANGED <<oc_url, oc_desc, oc_path, oc_file, oc_chunks, oc_direct,
                   oc_direct_err, oc_status, oc_hls, oneVars, allVars,
                   hlsVars, restVars>>

\* download_binary up to File::create: send, error_for_status_ref, create.
\* `out` is a send error or a response status; `created` tells whether
\* File::create succeeds.
BinarySend ==
    /\ oc_pc = "binary_send"
    /\ \E out \in {[err |-> e, status |-> 0] : e \in SendErrors}
                  \cup {[err |-> NoError, status |-> st] : st \in ResponseStatuses},
          created \in BOOLEAN :
         LET err == IF out.err # NoError THEN out.err
                    ELSE IF error_for_status(out.status) # NoError
                         THEN error_for_status(out.status)
                    ELSE IF ~created THEN PlainErr("Io")
                    ELSE NoError
             after == AfterDirectFailure(oc_desc, err)
         IN  /\ oc_direct' = oc_direct + 1
             /\ oc_direct_err' = err
             /\ oc_status' = out.status
             /\ oc_file' = IF err = NoError THEN CreatedFile ELSE oc_file
             /\ oc_pc' = IF err = NoError THEN "binary_body" ELSE after.pc
             /\ oc_ret' = IF err = NoError THEN NoError ELSE after.ret
             /\ oc_hls' = oc_hls
    /\ UNCHANGED <<oc_url, oc_desc, oc_path, oc_chunks, oneVars, allVars,
                   hlsVars, restVars>>

\* One turn of the chunk loop of download_binary: a chunk is read and
\* written, or the body ends and the file is flushed, or reading, writing
\* or flushing fails.
BinaryChunk ==
    /\ oc_pc = "binary_body"
    /\ \E ev \in {[got |-> "chunk", err |-> NoError],
                  [got |-> "chunk", err |-> PlainErr("Io")],
                  [got |-> "end", err |-> NoError],
                  [got |-> "end", err |-> PlainErr("Io")]}
                 \cup {[got |-> "error", err |-> e] : e \in BodyErrors} :
         LET after == AfterDirectFailure(oc_desc, ev.err)
         IN  /\ (ev.got = "chunk" /\ ev.err = NoError) => oc_chunks < MaxChunks
             /\ oc_chunks' = IF ev.got = "chunk" /\ ev.err = NoError
                             THEN oc_chunks + 1 ELSE oc_chunks
             /\ oc_file' = IF ev.got = "chunk" /\ ev.err = NoError
                           THEN MkFile(TRUE, Append(oc_file.data, "direct"))
                           ELSE oc_file
             /\ oc_direct_err' = ev.err
             /\ oc_pc' = IF ev.err # NoError THEN after.pc
                         ELSE IF ev.got = "end" THEN "done"
                         ELSE oc_pc
             /\ oc_ret' = IF ev.err # NoError THEN after.ret
                          ELSE IF ev.got = "end" THEN OkResult
                          ELSE oc_ret
    /\ UNCHANGED <<oc_url, oc_desc, oc_path, oc_direct, oc_status, oc_hls,
                   oneVars, allVars, hlsVars, restVars>>

\* What a download_hls_stream call can leave behind: success with the stream
\* written to a re-created file, or an error with the file untouched,
\* re-created empty, or re-created and partly written.
HlsErrors ==
    NetworkErrors
    \cup {PlainErr("InvalidUrl"), PlainErr("VideoUrlNotFound"),
          PlainErr("UnsupportedStream"), PlainErr("Io")}

HlsOutcomes(file) ==
    {[res |-> OkResult, file |-> MkFile(TRUE, <<"hls">>)]}
    \cup {[res |-> e, file |-> f] :
             e \in HlsErrors, f \in {file, CreatedFile, MkFile(TRUE, <<"hls">>)}}

\* download_hls_stream(play_url, ..).await?, then Ok(output_path).
OnceHls ==
    /\ oc_pc = "hls"
    /\ \E out \in HlsOutcomes(oc_file) :
         /\ oc_hls' = oc_hls + 1
         /\ oc_file' = out.file
         /\ oc_ret' = out.res
         /\ oc_pc' = "done"
    /\ UNCHANGED <<oc_url, oc_desc, oc_path, oc_chunks, oc_direct, oc_direct_err,
                   oc_status, oneVars, allVars, hlsVars, restVars>>

NextOnce == OnceExtract \/ OnceCreateDir \/ BinarySend \/ BinaryChunk \/ OnceHls

----------------------------------------------------------------------------
(* persist_media_playlist: writing a media playlist's segments to one file *)

IsSpace(c) == c \in {" ", "\t", "\r"}

\* str::trim_start, str::trim_end and str::trim
RECURSIVE trim_start(_)
trim_start(s) ==
    IF s # <<>> /\ IsSpace(Head(s)) THEN trim_start(Tail(s)) ELSE s

RECURSIVE trim_end(_)
trim_end(s) ==
    IF s # <<>> /\ IsSpace(s[Len(s)]) THEN trim_end(SubSeq(s, 1, Len(s) - 1)) ELSE s

trim(s) == trim_end(trim_start(s))

\* The part of `s` from 1-based position `from` on: &s[from - 1..]
SliceFrom(s, from) == SubSeq(s, from, Len(s))

\* extract_attribute: None, or Some(value)
extract_attribute(line, attribute) ==
    LET needle == attribute \o <<"=">>
        at == find(line, needle)
        remainder == SliceFrom(line, at + Len(needle))
    IN  IF at = 0 THEN None
        ELSE IF starts_with(remainder, <<"\"">>)
        THEN LET rest == SliceFrom(remainder, 2)
                 end == find(rest, <<"\"">>)
             IN  IF end = 0 THEN None ELSE Some(SubSeq(rest, 1, end - 1))
        ELSE LET comma == find(remainder, <<",">>)
                 space == find(remainder, <<" ">>)
                 end == IF comma # 0 THEN comma
                        ELSE IF space # 0 THEN space
                        ELSE Len(remainder) + 1
             IN  Some(SubSeq(remainder, 1, end - 1))

\* The URL the playlist was fetched from, and the URL its relative
\* references are joined to.
PlaylistUrl == <<"h", "t", "t", "p", "s", ":", "/", "/", "c", "d", "n", "/", "p", ".", "m", "3", "u", "8">>
PlaylistBase == <<"h", "t", "t", "p", "s", ":", "/", "/", "c", "d", "n", "/">>

\* Url::parse of an absolute http(s) URL fails when no host follows the
\* scheme.
UrlParseFails(text) == text \in {<<"h", "t", "t", "p", ":", "/", "/">>, <<"h", "t", "t", "p", "s", ":", "/", "/">>}

\* resolve_segment_url: [err, url]
resolve_segment_url(playlist_base, segment_path) ==
    IF starts_with(segment_path, <<"h", "t", "t", "p", ":", "/", "/">>)
       \/ starts_with(segment_path, <<"h", "t", "t", "p", "s", ":", "/", "/">>)
    THEN IF UrlParseFails(segment_path)
         THEN [err |-> PlainErr("InvalidUrl"), url |-> <<>>]
         ELSE [err |-> NoError, url |-> segment_path]
    ELSE [err |-> NoError, url |-> playlist_base \o segment_path]

\* Lines a playlist is made of.
LineBlank == <<>>
LineHeader == <<"#", "E", "X", "T", "M", "3", "U">>
LineKeyAes == <<"#", "E", "X", "T", "-", "X", "-", "K", "E", "Y", ":", "M", "E", "T", "H", "O", "D", "=", "A", "E", "S", "-", "1", "2", "8", ",", "U", "R", "I", "=", "\"", "k", "\"">>
LineKeyNone == <<"#", "E", "X", "T", "-", "X", "-", "K", "E", "Y", ":", "M", "E", "T", "H", "O", "D", "=", "N", "O", "N", "E">>
LineMap == <<"#", "E", "X", "T", "-", "X", "-", "M", "A", "P", ":", "U", "R", "I", "=", "\"", "i", ".", "m", "p", "4", "\"">>
LineMapBad == <<"#", "E", "X", "T", "-", "X", "-", "M", "A", "P", ":", "U", "R", "I", "=", "\"", "h", "t", "t", "p", ":", "/", "/", "\"">>
LineSegA == <<"a", ".", "t", "s">>
LineSegB == <<" ", "b", ".", "t", "s", " ">>
LineSegBad == <<"h", "t", "t", "p", "s", ":", "/", "/">>

PlaylistLines ==
    {LineBlank, LineHeader, LineKeyAes, LineKeyNone, LineMap, LineMapBad,
     LineSegA, LineSegB, LineSegBad}

\* What the loop body does with one line, before any request is made:
\*   "skip"         continue
\*   "encrypted"    return Err(UnsupportedStream)
\*   "bad_url"      return Err(InvalidUrl)
\*   "init"         write_segment(init_url)
\*   "segment"      write_segment(segment_url)
LineStep(line) ==
    LET trimmed == trim(line)
        method == extract_attribute(trimmed, <<"M", "E", "T", "H", "O", "D">>)
        uri == extract_attribute(trimmed, <<"U", "R", "I">>)
    IN  IF trimmed = <<>> THEN [kind |-> "skip", url |-> <<>>]
        ELSE IF starts_with(trimmed, <<"#", "E", "X", "T", "-", "X", "-", "K", "E", "Y">>)
        THEN IF (IF is_some(method) THEN method[1] ELSE <<"N", "O", "N", "E">>) # <<"N", "O", "N", "E">>
             THEN [kind |-> "encrypted", url |-> <<>>]
             ELSE [kind |-> "skip", url |-> <<>>]
        ELSE IF starts_with(trimmed, <<"#", "E", "X", "T", "-", "X", "-", "M", "A", "P">>)
        THEN IF is_some(uri)
             THEN LET r == resolve_segment_url(PlaylistBase, uri[1])
                  IN  IF r.err # NoError THEN [kind |-> "bad_url", url |-> <<>>]
                      ELSE [kind |-> "init", url |-> r.url]
             ELSE [kind |-> "skip", url |-> <<>>]
        ELSE IF starts_with(trimmed, <<"#">>) THEN [kind |-> "skip", url |-> <<>>]
        ELSE LET r == resolve_segment_url(PlaylistBase, trimmed)
             IN  IF r.err # NoError THEN [kind |-> "bad_url", url |-> <<>>]
                 ELSE [kind |-> "segment", url |-> r.url]

\* Bytes in the output file: those of the response to `src`, all of them or
\* only a first part.
Bytes(src, whole) == [src |-> src, whole |-> whole]
HlsOldFile == MkFile(TRUE, <<Bytes(<<"o", "l", "d">>, TRUE)>>)

\* write_segment: the error returned and how much of the body was written
\* before it: "all" (and no error), "none" or "some".
WriteSegmentOutcomes ==
    {[err |-> NoError, wrote |-> "all"]}
    \cup {[err |-> e, wrote |-> "none"] :
             e \in {MkErr("Network", "Request", 0, FALSE, TRUE), NetStatus(404),
                    NetStatus(503)}}
    \cup {[err |-> e, wrote |-> w] :
             e \in {MkErr("Network", "Body", 0, FALSE, FALSE), PlainErr("Io")},
             w \in {"none", "some"}}

AfterWrite(data, url, out) ==
    IF out.wrote = "all" THEN Append(data, Bytes(url, TRUE))
    ELSE IF out.wrote = "some" THEN Append(data, Bytes(url, FALSE))
    ELSE data

\* The end of persist_media_playlist, after the loop.
\* The end without the had_segment test.
FinishResultNoTest(had_segment, flushed) ==
    IF flushed THEN OkResult ELSE PlainErr("Io")

FinishResult(had_segment, flushed) ==
    IF ~had_segment THEN PlainErr("VideoUrlNotFound")
    ELSE IF flushed THEN OkResult
    ELSE PlainErr("Io")

\* tokio::fs::File::create(output_path).await?
PersistCreate ==
    /\ h_pc = "create"
    /\ \E created \in BOOLEAN :
         /\ h_pc' = IF created THEN "lines" ELSE "done"
         /\ h_line' = IF created THEN 1 ELSE h_line
         /\ h_file' = IF created THEN CreatedFile ELSE h_file
         /\ h_ret' = IF created THEN NoError ELSE PlainErr("Io")
    /\ UNCHANGED <<h_playlist, h_had_segment, h_segment_count, h_fetched,
                   oneVars, allVars, onceVars, restVars>>

\* One turn of the loop over the playlist's lines.
PersistLine ==
    /\ h_pc = "lines"
    /\ h_line <= Len(h_playlist)
    /\ LET step == LineStep(h_playlist[h_line])
           fetches == step.kind \in {"init", "segment"}
       IN  \E out \in IF fetches THEN WriteSegmentOutcomes
                      ELSE {[err |-> NoError, wrote |-> "none"]} :
             LET err == IF step.kind = "encrypted" THEN PlainErr("UnsupportedStream")
                        ELSE IF step.kind = "bad_url" THEN PlainErr("InvalidUrl")
                        ELSE out.err
             IN  /\ h_fetched' = IF fetches THEN Append(h_fetched, step.url)
                                 ELSE h_fetched
                 /\ h_file' = IF fetches
                              THEN MkFile(TRUE, AfterWrite(h_file.data, step.url, out))
                              ELSE h_file
                 /\ h_segment_count' = IF step.kind = "segment"
                                       THEN h_segment_count + 1 ELSE h_segment_count
                 /\ h_had_segment' = IF step.kind = "segment" /\ err = NoError
                                     THEN TRUE ELSE h_had_segment
                 /\ h_pc' = IF err # NoError THEN "done" ELSE h_pc
                 /\ h_ret' = err
                 /\ h_line' = IF err # NoError THEN h_line ELSE h_line + 1
    /\ UNCHANGED <<h_playlist, oneVars, allVars, onceVars, restVars>>

\* After the last line: the had_segment test, then file.flush().await?
PersistFinish ==
    /\ h_pc = "lines"
    /\ h_line > Len(h_playlist)
    /\ \E flushed \in BOOLEAN :
         h_ret' = FinishResult(h_had_segment, flushed)
    /\ h_pc' = "done"
    /\ UNCHANGED <<h_playlist, h_line, h_file, h_had_segment, h_segment_count,
                   h_fetched, oneVars, allVars, onceVars, restVars>>

NextHls == PersistCreate \/ PersistLine \/ PersistFinish

----------------------------------------------------------------------------
(* select_best_variant: the variant of a master playlist to download *)

DigitValue(c) ==
    CASE c = "0" -> 0 [] c = "1" -> 1 [] c = "2" -> 2 [] c = "3" -> 3
      [] c = "4" -> 4 [] c = "5" -> 5 [] c = "6" -> 6 [] c = "7" -> 7
      [] c = "8" -> 8 [] c = "9" -> 9

RECURSIVE DecimalValue(_)
DecimalValue(s) ==
    IF s = <<>> THEN 0
    ELSE 10 * DecimalValue(SubSeq(s, 1, Len(s) - 1)) + DigitValue(s[Len(s)])

\* str::parse::<u64>: an optional '+', then one or more ASCII digits and
\* nothing else.  [ok, val]; the strings parsed here stay far below 2^64.
parse_u64(s) ==
    LET digits == IF s # <<>> /\ Head(s) = "+" THEN Tail(s) ELSE s
    IN  IF digits # <<>> /\ \A k \in 1..Len(digits) : digits[k] \in Digits
        THEN [ok |-> TRUE, val |-> DecimalValue(digits)]
        ELSE [ok |-> FALSE, val |-> 0]

\* The `bandwidth` of a marker line:
\* extract_attribute(..).and_then(parse().ok()).unwrap_or(0)
bandwidth_of(trimmed) ==
    LET value == extract_attribute(trimmed, <<"B", "A", "N", "D", "W", "I", "D", "T", "H">>)
    IN  IF is_some(value) /\ parse_u64(value[1]).ok
        THEN parse_u64(value[1]).val ELSE 0

\* The inner loop: the number of the first line after line `from` that is
\* neither empty nor a '#' line once trimmed; 0 when the lines run out.
RECURSIVE next_uri_line(_, _)
next_uri_line(playlist, from) ==
    IF from >= Len(playlist) THEN 0
    ELSE LET trimmed == trim(playlist[from + 1])
         IN  IF trimmed # <<>> /\ ~starts_with(trimmed, <<"#">>)
             THEN from + 1
             ELSE next_uri_line(playlist, from + 1)

\* The match on resolve_segment_url's result: the new `best`.
update_best(best, bandwidth, resolved) ==
    IF resolved.err # NoError THEN best
    ELSE IF is_some(best) /\ bandwidth <= best[1].bw THEN best
    ELSE Some([bw |-> bandwidth, url |-> resolved.url])

\* best.map(|(_, url)| url)
best_url(best) == IF is_some(best) THEN Some(best[1].url) ELSE None

\* Lines a master playlist is made of.
LineInf5 == <<"#", "E", "X", "T", "-", "X", "-", "S", "T", "R", "E", "A", "M", "-", "I", "N", "F", ":", "B", "A", "N", "D", "W", "I", "D", "T", "H", "=", "5">>
LineInf12 == <<"#", "E", "X", "T", "-", "X", "-", "S", "T", "R", "E", "A", "M", "-", "I", "N", "F", ":", "B", "A", "N", "D", "W", "I", "D", "T", "H", "=", "1", "2", ",", "C", "O", "D", "E", "C", "S", "=", "\"", "a", "\"">>
LineInfAvg == <<"#", "E", "X", "T", "-", "X", "-", "S", "T", "R", "E", "A", "M", "-", "I", "N", "F", ":", "A", "V", "E", "R", "A", "G", "E", "-", "B", "A", "N", "D", "W", "I", "D", "T", "H", "=", "9", ",", "B", "A", "N", "D", "W", "I", "D", "T", "H", "=", "3">>
LineInfNone == <<"#", "E", "X", "T", "-", "X", "-", "S", "T", "R", "E", "A", "M", "-", "I", "N", "F", ":", "C", "O", "D", "E", "C", "S", "=", "\"", "a", "\"">>
LineUriLo == <<"l", "o", ".", "m", "3", "u", "8">>
LineUriHi == <<" ", "h", "t", "t", "p", "s", ":", "/", "/", "c", "d", "n", "/", "h", "i", ".", "m", "3", "u", "8">>

MasterLines ==
    {LineHeader, LineInf5, LineInf12, LineInfAvg, LineInfNone, LineUriLo,
     LineUriHi, LineSegBad}

\* One turn of the outer loop: lines.next(), and for a marker line the
\* inner loop and the match.
VariantLine ==
    /\ sv_pc = "scan"
    /\ sv_pos < Len(sv_playlist)
    /\ LET trimmed == trim(sv_playlist[sv_pos + 1])
           marker == starts_with(trimmed, <<"#", "E", "X", "T", "-", "X", "-", "S", "T", "R", "E", "A", "M", "-", "I", "N", "F">>)
           uri_at == next_uri_line(sv_playlist, sv_pos + 1)
       IN  IF ~marker
           THEN /\ sv_pos' = sv_pos + 1
                /\ UNCHANGED <<sv_pc, sv_best, sv_count, sv_ret>>
           ELSE IF uri_at = 0
           THEN /\ sv_pos' = Len(sv_playlist)
                /\ sv_count' = sv_count + 1
                /\ sv_pc' = "done"
                /\ sv_ret' = best_url(sv_best)
                /\ UNCHANGED sv_best
           ELSE /\ sv_pos' = uri_at
                /\ sv_count' = sv_count + 1
                /\ sv_best' = update_best(sv_best, bandwidth_of(trimmed),
                                  resolve_segment_url(PlaylistBase,
                                                      trim(sv_playlist[uri_at])))
                /\ UNCHANGED <<sv_pc, sv_ret>>
    /\ UNCHANGED <<sv_playlist, notVariant>>

\* After the loop: best.map(|(_, url)| url)
VariantReturn ==
    /\ sv_pc = "scan"
    /\ sv_pos = Len(sv_playlist)
    /\ sv_pc' = "done"
    /\ sv_ret' = best_url(sv_best)
    /\ UNCHANGED <<sv_playlist, sv_pos, sv_best, sv_count, notVariant>>

NextVariant == VariantLine \/ VariantReturn

----------------------------------------------------------------------------
(* scraper.rs: the share URL's path, and the descriptor of a share page *)

\* str::split on one separator character: the pieces, in order.
RECURSIVE split(_, _)
split(s, sep) ==
    LET at == find(s, <<sep>>)
    IN  IF at = 0 THEN <<s>>
        ELSE <<SubSeq(s, 1, at - 1)>> \o split(SliceFrom(s, at + 1), sep)

\* The position where the first of the characters `stops` stands in `s`,
\* Len(s) + 1 when none does.
FirstOf(s, stops) ==
    LET hits == {i \in 1..Len(s) : s[i] \in stops}
    IN  IF hits = {} THEN Len(s) + 1
        ELSE CHOOSE i \in hits : \A j \in hits : i <= j

\* Url::parse removes the path's dot segments: "." is dropped and ".."
\* drops the segment before it.
RECURSIVE RemoveDotSegments(_, _)
RemoveDotSegments(segments, acc) ==
    IF segments = <<>> THEN acc
    ELSE LET seg == Head(segments)
             last == Len(segments) = 1
         IN  IF seg = <<".">>
             THEN RemoveDotSegments(Tail(segments),
                                    IF last THEN Append(acc, <<>>) ELSE acc)
             ELSE IF seg = <<".", ".">>
             THEN RemoveDotSegments(Tail(segments),
                      LET popped == IF acc = <<>> THEN acc
                                    ELSE SubSeq(acc, 1, Len(acc) - 1)
                      IN  IF last THEN Append(popped, <<>>) ELSE popped)
             ELSE RemoveDotSegments(Tail(segments), Append(acc, seg))

\* Url::parse(share_url) followed by path_segments(), for http(s) URLs:
\* [ok, segments].  The path runs from the first '/' after the host to the
\* first '?' or '#'; a URL without a path has the path "/".
path_segments(share_url) ==
    LET scheme == IF starts_with(share_url, <<"h", "t", "t", "p", "s", ":", "/", "/">>) THEN 8
                  ELSE IF starts_with(share_url, <<"h", "t", "t", "p", ":", "/", "/">>) THEN 7
                  ELSE 0
        after == SliceFrom(share_url, scheme + 1)
        host_end == FirstOf(after, {"/", "?", "#"})
        tail == SliceFrom(after, host_end)
        path == SubSeq(tail, 1, FirstOf(tail, {"?", "#"}) - 1)
    IN  IF scheme = 0 \/ host_end = 1
        THEN [ok |-> FALSE, segments |-> <<>>]
        ELSE [ok |-> TRUE,
              segments |->
                  IF path = <<>> THEN << <<>> >>
                  ELSE LET segs == RemoveDotSegments(split(SliceFrom(path, 2), "/"), <<>>)
                       IN  IF segs = <<>> THEN << <<>> >> ELSE segs]

\* The last such window in the place of the first.
last_marked_window(segments) ==
    LET hits == {k \in 1..(Len(segments) - 1) :
                    segments[k] \in {<<"v", "i", "d", "e", "o">>, <<"n", "o", "t", "e">>}}
    IN  IF hits = {} THEN 0 ELSE CHOOSE k \in hits : \A j \in hits : k >= j

\* The first window [prefix, id] of segments.windows(2) whose prefix is
\* "video" or "note": its position, 0 when there is none.
first_marked_window(segments) ==
    LET hits == {k \in 1..(Len(segments) - 1) :
                    segments[k] \in {<<"v", "i", "d", "e", "o">>, <<"n", "o", "t", "e">>}}
    IN  IF hits = {} THEN 0 ELSE CHOOSE k \in hits : \A j \in hits : k <= j

\* guess_video_id: None or Some(id)
guess_video_id(share_url) ==
    LET url == path_segments(share_url)
        segments == SelectSeq(url.segments, LAMBDA seg : seg # <<>>)
        k == first_marked_window(segments)
    IN  IF ~url.ok THEN None
        ELSE IF k # 0 THEN Some(segments[k + 1])
        ELSE IF segments # <<>> THEN Some(segments[Len(segments)])
        ELSE None

\* guess_author_id: the first path segment "@name" with a non-empty name.
guess_author_id(share_url) ==
    LET url == path_segments(share_url)
        hits == {k \in 1..Len(url.segments) :
                    /\ starts_with(url.segments[k], <<"@">>)
                    /\ Len(url.segments[k]) > 1}
    IN  IF ~url.ok \/ hits = {} THEN None
        ELSE Some(Tail(url.segments[CHOOSE k \in hits : \A j \in hits : k <= j]))

\* Option::or_else, Option::filter(|s| !s.is_empty())
or_else(o, other) == IF is_some(o) THEN o ELSE other
\* The filter left out: an empty string is kept.
filter_nothing(o) == o
filter_non_empty(o) == IF is_some(o) /\ o[1] # <<>> THEN o ELSE None

\* str::replace: every occurrence of `from`, left to right.
RECURSIVE replace(_, _, _)
replace(s, from, to) ==
    LET at == find(s, from)
    IN  IF at = 0 THEN s
        ELSE SubSeq(s, 1, at - 1) \o to
             \o replace(SliceFrom(s, at + Len(from)), from, to)

\* ItemStruct, and the itemStruct Value of the universal payload: id and
\* author.uniqueId are None when absent (or, in a Value, not strings);
\* video is None or Some([download_addr, play_addr]).
MkItem(id, video, author) == [id |-> id, video |-> video, author |-> author]
MkVideo(download_addr, play_addr) ==
    [download_addr |-> download_addr, play_addr |-> play_addr]

\* build_descriptor_from_value: None or Some(descriptor)
build_descriptor_from_value(value, share_url) ==
    LET video_id == or_else(value.id, guess_video_id(share_url))
        download_url == filter_non_empty(value.video[1].download_addr)
        play_url == filter_non_empty(value.video[1].play_addr)
        author == or_else(or_else(value.author, guess_author_id(share_url)),
                          Some(<<"u", "n", "k", "n", "o", "w", "n">>))
    IN  IF ~is_some(video_id) THEN None
        ELSE IF ~is_some(value.video) THEN None
        ELSE IF ~is_some(download_url) /\ ~is_some(play_url) THEN None
        ELSE Some(MkDescriptor(video_id[1], author[1], download_url, play_url))

\* build_descriptor_from_item: None or Some(descriptor)
build_descriptor_from_item(item, share_url) ==
    LET download_url == filter_non_empty(item.video[1].download_addr)
        play_url == filter_non_empty(item.video[1].play_addr)
        author == or_else(or_else(item.author, guess_author_id(share_url)),
                          Some(<<"u", "n", "k", "n", "o", "w", "n">>))
    IN  IF ~is_some(item.video) THEN None
        ELSE IF ~is_some(download_url) /\ ~is_some(play_url) THEN None
        ELSE IF ~is_some(item.id) THEN None
        ELSE Some(MkDescriptor(item.id[1], author[1], download_url, play_url))

\* resolve_descriptor_from_items over a HashMap given as a set of
\* [key, item] entries: the results it can return.  The entry that
\* into_iter().next() yields is any entry of the map.
resolve_descriptor_from_items(items, share_url) ==
    LET guess == guess_video_id(share_url)
        keyed == {e \in items : is_some(guess) /\ e.key = guess[1]}
    IN  IF items = {} THEN {None}
        ELSE IF keyed # {}
        THEN {build_descriptor_from_item(e.item, share_url) : e \in keyed}
        ELSE {build_descriptor_from_item(e.item, share_url) : e \in items}

\* The embedded payload of one script element:
\*   kind "absent"     no such element in the document
\*   kind "malformed"  the element's text is not the JSON the strategy reads
\*   kind "json"       `body` is what the strategy reads from it:
\*                     universal: Option of the itemStruct Value
\*                     sigi:      the ItemModule map, a set of [key, item]
\*                     next:      Option of props.pageProps.itemInfo.itemStruct
NoPayload == [kind |-> "absent", body |-> <<>>]
Malformed == [kind |-> "malformed", body |-> <<>>]
Json(body) == [kind |-> "json", body |-> body]

MkPage(universal, sigi, next) ==
    [universal |-> universal, sigi |-> sigi, next |-> next]

\* parse_universal_data: the results it can return
parse_universal_data(document, share_url) ==
    IF document.universal.kind # "json" THEN {None}
    ELSE IF ~is_some(document.universal.body) THEN {None}
    ELSE {build_descriptor_from_value(document.universal.body[1], share_url)}

\* parse_sigi_state: the results it can return
parse_sigi_state(document, share_url) ==
    IF document.sigi.kind # "json" THEN {None}
    ELSE resolve_descriptor_from_items(document.sigi.body, share_url)

\* parse_next_data: the results it can return
parse_next_data(document, share_url) ==
    IF document.next.kind # "json" THEN {None}
    ELSE LET item == document.next.body
             items == IF is_some(item) /\ is_some(item[1].id)
                      THEN {[key |-> item[1].id[1], item |-> item[1]]}
                      ELSE {}
         IN  resolve_descriptor_from_items(items, share_url)

\* The closure of parse_share_page's map: every backslash-u0026 becomes "&"
\* in both URLs.
unescape_urls(descriptor) ==
    LET fix(o) == IF is_some(o) THEN Some(replace(o[1], <<"\\", "u", "0", "0", "2", "6">>, <<"&">>))
                  ELSE None
    IN  MkDescriptor(descriptor.video_id, descriptor.author,
                     fix(descriptor.download_url), fix(descriptor.play_url))

\* parse_share_page: the results it can return, each with the number of
\* the strategy it comes from (0 with None) and what each strategy
\* returned or would have returned (`tried`).
parse_share_page(html, share_url) ==
    {[won |-> IF is_some(u) THEN 1 ELSE IF is_some(g) THEN 2
              ELSE IF is_some(n) THEN 3 ELSE 0,
      desc |-> LET d == or_else(u, or_else(g, n))
               IN  IF is_some(d) THEN Some(unescape_urls(d[1])) ELSE None,
      tried |-> <<u, g, n>>] :
        u \in parse_universal_data(html, share_url),
        g \in parse_sigi_state(html, share_url),
        n \in parse_next_data(html, share_url)}

----------------------------------------------------------------------------
(* extract_video_descriptor, as download_once calls it in every attempt of *)
(* download_one                                                            *)

\* A URL as the page's JSON text carries it, "&" written as backslash-u0026.
EscapedUrl == <<"h", "t", "t", "p", "s", ":", "/", "/", "c", "d", "n", "/", "v", ".", "m", "p", "4", "?", "a", "\\", "u", "0", "0", "2", "6", "b">>

ItemFull == MkItem(Some(<<"7">>), Some(MkVideo(Some(EscapedUrl), Some(PlayUrl))),
                   Some(<<"u">>))
ItemPlay == MkItem(Some(<<"9">>), Some(MkVideo(None, Some(PlayUrl))), None)
ItemNoId == MkItem(None, Some(MkVideo(Some(DirectUrl), None)), None)
ItemEmptyId == MkItem(Some(<<>>), Some(MkVideo(None, Some(PlayUrl))), None)
ItemNoVideo == MkItem(Some(<<"7">>), None, None)
ItemEmptyUrls == MkItem(Some(<<"7">>), Some(MkVideo(Some(<<>>), None)), None)

Items == {ItemFull, ItemPlay, ItemNoId, ItemEmptyId, ItemNoVideo, ItemEmptyUrls}

\* ItemModule maps: keys are item ids as the page gives them.
ItemMaps ==
    {{},
     {[key |-> <<"7">>, item |-> ItemFull]},
     {[key |-> <<"9">>, item |-> ItemPlay]},
     {[key |-> <<"x">>, item |-> ItemEmptyId]},
     {[key |-> <<"9">>, item |-> ItemPlay], [key |-> <<"8">>, item |-> ItemNoVideo]}}

\* The share pages a server can answer with.
Pages ==
    {MkPage(u, g, n) :
        u \in {NoPayload, Malformed, Json(None)} \cup {Json(Some(i)) : i \in Items},
        g \in {NoPayload, Malformed} \cup {Json(m) : m \in ItemMaps},
        n \in {NoPayload, Malformed, Json(None)} \cup {Json(Some(i)) : i \in Items}}

NotParsed == [won |-> 0, desc |-> None, tried |-> <<None, None, None>>]

ExtractUrls ==
    {<<"h", "t", "t", "p", "s", ":", "/", "/", "w", "w", "w", ".", "t", "i", "k", "t", "o", "k", ".", "c", "o", "m", "/", "@", "u", "/", "v", "i", "d", "e", "o", "/", "7">>, <<"h", "t", "t", "p", "s", ":", "/", "/", "v", "m", ".", "t", "i", "k", "t", "o", "k", ".", "c", "o", "m", "/">>,
     <<"h", "t", "t", "p", "s", ":", "/", "/", "e", "x", "a", "m", "p", "l", "e", ".", "c", "o", "m", "/", "v", "i", "d", "e", "o", "/", "7">>}

ExtractConfigs == {MkConfig(r, U64(1, 0), 1) : r \in 0..MaxExtractRetries}

\* The source download_once turns to first, by the descriptor's URLs.
first_source(descriptor) ==
    IF is_some(descriptor.download_url) THEN "direct"
    ELSE IF is_some(descriptor.play_url) THEN "hls"
    ELSE "not_found"

\* if !share_url.contains("tiktok.com") { return Err(InvalidUrl) }
ExtractCheck ==
    /\ ex_pc = "check"
    /\ IF ~contains(ex_url, <<"t", "i", "k", "t", "o", "k", ".", "c", "o", "m">>)
       THEN ex_pc' = "returned" /\ ex_ret' = PlainErr("InvalidUrl")
       ELSE ex_pc' = "send" /\ ex_ret' = NoError
    /\ UNCHANGED <<ex_url, ex_cfg, ex_pipe, ex_attempt, ex_requests, ex_status,
                   ex_html, ex_parsed, notExtract>>

\* self.client.get(share_url).send().await?.error_for_status()?
ExtractSend ==
    /\ ex_pc = "send"
    /\ \E out \in {[err |-> e, status |-> 0] : e \in SendErrors}
                  \cup {[err |-> NoError, status |-> st] : st \in ResponseStatuses} :
         LET err == IF out.err # NoError THEN out.err
                    ELSE error_for_status(out.status)
         IN  /\ ex_requests' = ex_requests + 1
             /\ ex_status' = out.status
             /\ ex_ret' = err
             /\ ex_pc' = IF err # NoError THEN "returned" ELSE "text"
    /\ UNCHANGED <<ex_url, ex_cfg, ex_pipe, ex_attempt, ex_html, ex_parsed,
                   notExtract>>

\* let html = response.text().await?
ExtractText ==
    /\ ex_pc = "text"
    /\ \E out \in {[err |-> e, page |-> None] : e \in BodyErrors}
                  \cup {[err |-> NoError, page |-> Some(p)] : p \in Pages} :
         /\ ex_html' = out.page
         /\ ex_ret' = out.err
         /\ ex_pc' = IF out.err # NoError THEN "returned" ELSE "parse"
    /\ UNCHANGED <<ex_url, ex_cfg, ex_pipe, ex_attempt, ex_requests, ex_status,
                   ex_parsed, notExtract>>

\* ok_or with Error::InvalidUrl in the place of Error::VideoUrlNotFound.
ok_or_invalid_url(parsed) ==
    IF is_some(parsed.desc) THEN OkResult ELSE PlainErr("InvalidUrl")

\* parse_share_page(&html, share_url).ok_or(Error::VideoUrlNotFound)
ok_or_not_found(parsed) ==
    IF is_some(parsed.desc) THEN OkResult ELSE PlainErr("VideoUrlNotFound")

ExtractParse ==
    /\ ex_pc = "parse"
    /\ \E parsed \in parse_share_page(ex_html[1], ex_url) :
         /\ ex_parsed' = parsed
         /\ ex_ret' = ok_or_not_found(parsed)
    /\ ex_pc' = "returned"
    /\ UNCHANGED <<ex_url, ex_cfg, ex_pipe, ex_attempt, ex_requests, ex_status,
                   ex_html, notExtract>>

\* download_once passes an extraction error on (`?`), and download_one
\* returns it or starts a backoff sleep; with a descriptor the attempt goes
\* on to build_output_path.
ExtractReturned ==
    /\ ex_pc = "returned"
    /\ IF ex_ret = OkResult
       THEN /\ ex_pipe' = "extracted"
            /\ ex_pc' = "done"
            /\ UNCHANGED ex_attempt
       ELSE \E nxt \in AfterOnce(ex_cfg, ex_attempt, ex_ret) :
               /\ ex_pipe' = nxt.pc
               /\ ex_attempt' = nxt.attempt
               /\ ex_pc' = IF nxt.pc = "backoff" THEN "sleep" ELSE "done"
    /\ UNCHANGED <<ex_url, ex_cfg, ex_requests, ex_status, ex_html, ex_parsed,
                   ex_ret, notExtract>>

\* The backoff sleep ends; the next attempt starts from the host check.
ExtractWake ==
    /\ ex_pc = "sleep"
    /\ ex_pc' = "check"
    /\ ex_pipe' = "attempting"
    /\ ex_status' = 0
    /\ ex_html' = None
    /\ ex_parsed' = NotParsed
    /\ ex_ret' = NoError
    /\ UNCHANGED <<ex_url, ex_cfg, ex_attempt, ex_requests, notExtract>>

NextExtract ==
    \/ ExtractCheck
    \/ ExtractSend
    \/ ExtractText
    \/ ExtractParse
    \/ ExtractReturned
    \/ ExtractWake

----------------------------------------------------------------------------
(* Single calls of guess_video_id, sanitize_component, build_output_path    *)
(* and extract_attribute                                                   *)

\* `pieces` joined, each piece preceded by '/'.
RECURSIVE JoinPath(_)
JoinPath(pieces) ==
    IF pieces = <<>> THEN <<>>
    ELSE <<"/">> \o Head(pieces) \o JoinPath(Tail(pieces))

\* Share URLs: a host, up to MaxSegments path segments (empty ones and dot
\* segments among them), and nothing, a '/' or a query after the path; and
\* one string that Url::parse rejects.
SegmentChoices == {<<>>, <<"v", "i", "d", "e", "o">>, <<"n", "o", "t", "e">>, <<"7">>, <<"@", "u">>, <<".", ".">>}
GuessInputs ==
    {<<"h", "t", "t", "p", "s", ":", "/", "/", "w", "w", "w", ".", "t", "i", "k", "t", "o", "k", ".", "c", "o", "m">> \o JoinPath(p) \o tail :
        p \in SeqsUpTo(SegmentChoices, MaxSegments),
        tail \in {<<>>, <<"/">>, <<"?", "x", "=", "/", "v", "i", "d", "e", "o", "/", "9">>}}
    \cup {<<"w", "w", "w", ".", "t", "i", "k", "t", "o", "k", ".", "c", "o", "m", "/", "v", "i", "d", "e", "o", "/", "7">>}

\* Characters of the strings given to sanitize_component.
InputChars == {"a", "Z", "7", "-", "_", ".", "!", "/", " ", "é"}
SanitizeInputs == SeqsUpTo(InputChars, MaxInput)

\* Descriptors given to build_output_path: the one of the unit test and
\* every video id and author up to MaxComponent characters.
ComponentChars == {"a", ".", "/", "@"}
PathInputs ==
    {MkDescriptor(<<"v", "i", "d", "e", "o", "!", "@", "#">>, <<"@", "u", "s", "e", "r", " ", "n", "a", "m", "e">>, Some(DirectUrl), None)}
    \cup {MkDescriptor(v, a, Some(DirectUrl), None) :
             v \in SeqsUpTo(ComponentChars, MaxComponent),
             a \in SeqsUpTo(ComponentChars, MaxComponent)}

\* Arguments of extract_attribute: the lines of the unit tests, and tag
\* lines with an attribute K (unquoted, empty, quoted, quoted without the
\* closing quote) alone or with a second attribute before or after it, the
\* two separated by a comma or by a space.
AttributeK == {<<"K", "=", "v">>, <<"K", "=">>, <<"K", "=", "\"", "q", ",", "r", " ", "s", "\"">>, <<"K", "=", "\"", "o">>}
AttributeU == {<<"U", "=", "x">>, <<"U", "=", "\"", "y", " ", "z", "\"">>, <<"U", "=", "x", ",", "W", "=", "1">>}
AttributeLines ==
    {<<"#", "E", "X", "T", "-", "X", "-", "M", "A", "P", ":", "U", "R", "I", "=", "\"", "i", "n", "i", "t", ".", "m", "p", "4", "\"">>, <<"#", "E", "X", "T", "-", "X", "-", "K", "E", "Y", ":", "M", "E", "T", "H", "O", "D", "=", "A", "E", "S", "-", "1", "2", "8", ",", "U", "R", "I", "=", "\"", "e", "n", "c", ".", "k", "e", "y", "\"">>}
    \cup {<<"#", "T", ":">> \o k : k \in AttributeK}
    \cup {<<"#", "T", ":">> \o k \o sep \o u : k \in AttributeK, u \in AttributeU,
                                        sep \in {<<",">>, <<" ">>}}
    \cup {<<"#", "T", ":">> \o u \o sep \o k : k \in AttributeK, u \in AttributeU,
                                        sep \in {<<",">>, <<" ">>}}
AttributeInputs ==
    {[line |-> l, attribute |-> a] :
        l \in AttributeLines, a \in {<<"K">>, <<"U">>, <<"U", "R", "I">>, <<"M", "E", "T", "H", "O", "D">>}}

CallInputs(fn) ==
    CASE fn = "guess_video_id" -> GuessInputs
      [] fn = "sanitize_component" -> SanitizeInputs
      [] fn = "build_output_path" -> PathInputs
      [] fn = "extract_attribute" -> AttributeInputs

CallGuessVideoId ==
    /\ call_pc = "called"
    /\ call_fn = "guess_video_id"
    /\ call_out' = guess_video_id(call_in)
    /\ call_pc' = "returned"
    /\ UNCHANGED <<call_fn, call_in, notCalls>>

CallSanitizeComponent ==
    /\ call_pc = "called"
    /\ call_fn = "sanitize_component"
    /\ call_out' = sanitize_component(call_in)
    /\ call_pc' = "returned"
    /\ UNCHANGED <<call_fn, call_in, notCalls>>

CallBuildOutputPath ==
    /\ call_pc = "called"
    /\ call_fn = "build_output_path"
    /\ call_out' = build_output_path(call_in)
    /\ call_pc' = "returned"
    /\ UNCHANGED <<call_fn, call_in, notCalls>>

CallExtractAttribute ==
    /\ call_pc = "called"
    /\ call_fn = "extract_attribute"
    /\ call_out' = extract_attribute(call_in.line, call_in.attribute)
    /\ call_pc' = "returned"
    /\ UNCHANGED <<call_fn, call_in, notCalls>>

NextCalls ==
    \/ CallGuessVideoId
    \/ CallSanitizeComponent
    \/ CallBuildOutputPath
    \/ CallExtractAttribute

----------------------------------------------------------------------------
(* gather_urls on a URL file, and the output files of the pipelines that   *)
(* download_all runs over the gathered URLs                                *)

\* A dedup that drops every repeated element, consecutive or not.
RECURSIVE dedup_all(_)
dedup_all(v) ==
    IF v = <<>> THEN v
    ELSE <<v[1]>> \o dedup_all(SelectSeq(Tail(v), LAMBDA x : x # v[1]))

\* Vec::dedup: consecutive equal elements collapse to the first.
RECURSIVE dedup(_)
dedup(v) ==
    IF Len(v) <= 1 THEN v
    ELSE IF v[1] = v[2] THEN dedup(Tail(v))
    ELSE <<v[1]>> \o dedup(Tail(v))

\* [seq[k] mapped by Op, in order]
MapSeq(Op(_), seq) == [k \in 1..Len(seq) |-> Op(seq[k])]

\* gather_urls with --file: [err, urls]
gather_urls(lines) ==
    LET kept == SelectSeq(MapSeq(trim, lines),
                          LAMBDA line : line # <<>> /\ ~starts_with(line, <<"#">>))
    IN  IF kept = <<>>
        THEN [err |-> PlainErr("EmptyUrlFile"), urls |-> <<>>]
        ELSE [err |-> NoError, urls |-> dedup(kept)]

NotGathered == [err |-> NoError, urls |-> <<>>]

\* Lines of a URL file.
UrlA == <<"h", "t", "t", "p", "s", ":", "/", "/", "w", "w", "w", ".", "t", "i", "k", "t", "o", "k", ".", "c", "o", "m", "/", "@", "u", "/", "v", "i", "d", "e", "o", "/", "7">>
UrlB == <<"h", "t", "t", "p", "s", ":", "/", "/", "w", "w", "w", ".", "t", "i", "k", "t", "o", "k", ".", "c", "o", "m", "/", "@", "u", "/", "v", "i", "d", "e", "o", "/", "8">>
FileLines == {UrlA, <<" ">> \o UrlA \o <<" ">>, UrlB, <<"#", " ", "l", "i", "s", "t">>, <<>>}

\* The descriptor of the video a share URL stands for; distinct URLs of
\* FileLines stand for distinct videos.
DescriptorAt(share_url) ==
    MkDescriptor(guess_video_id(share_url)[1], guess_author_id(share_url)[1],
                 Some(DirectUrl), None)

\* output_path of the pipeline of gathered URL number i
output_path(i) == build_output_path(DescriptorAt(gathered.urls[i])).path

FilesConfigs == {MkConfig(0, U64(1, 0), c) : c \in 1..MaxWriters}

\* run: gather_urls(&cli)?, then download_all(&urls)
GatherUrls ==
    /\ w_pc = "gather"
    /\ gathered' = gather_urls(cli_file)
    /\ w_pc' = IF gather_urls(cli_file).err # NoError THEN "exit" ELSE "running"
    /\ w_state' = [i \in 1..Len(gather_urls(cli_file).urls) |-> "queued"]
    /\ UNCHANGED <<cli_file, w_cfg, w_started, notFiles>>

Writing == {i \in 1..Len(w_state) : w_state[i] \in {"attempting", "writing"}}

\* buffer_unordered starts the next URL's pipeline while it holds fewer
\* than max_concurrent_downloads of them.
PipeStart ==
    /\ w_pc = "running"
    /\ w_started < Len(w_state)
    /\ Cardinality(Writing) < w_cfg.max_concurrent_downloads
    /\ w_started' = w_started + 1
    /\ w_state' = [w_state EXCEPT ![w_started + 1] = "attempting"]
    /\ UNCHANGED <<cli_file, gathered, w_cfg, w_pc, notFiles>>

\* download_once up to the first File::create(output_path): the file is
\* open for writing, or the attempt has failed before.
PipeOpen(i) ==
    /\ w_pc = "running"
    /\ w_state[i] = "attempting"
    /\ \E opened \in BOOLEAN :
         w_state' = [w_state EXCEPT ![i] = IF opened THEN "writing" ELSE "finished"]
    /\ UNCHANGED <<cli_file, gathered, w_cfg, w_pc, w_started, notFiles>>

\* The writer returns, with success or an error: the file is closed.
PipeClose(i) ==
    /\ w_pc = "running"
    /\ w_state[i] = "writing"
    /\ w_state' = [w_state EXCEPT ![i] = "finished"]
    /\ UNCHANGED <<cli_file, gathered, w_cfg, w_pc, w_started, notFiles>>

\* download_all returns when every pipeline has finished.
FilesReturn ==
    /\ w_pc = "running"
    /\ \A i \in 1..Len(w_state) : w_state[i] = "finished"
    /\ w_pc' = "returned"
    /\ UNCHANGED <<cli_file, gathered, w_cfg, w_started, w_state, notFiles>>

NextFiles ==
    \/ GatherUrls
    \/ PipeStart
    \/ \E i \in 1..Len(w_state) : PipeOpen(i)
    \/ \E i \in 1..Len(w_state) : PipeClose(i)
    \/ FilesReturn

----------------------------------------------------------------------------
(* run (main.rs): download_all over the gathered URLs, one line per report, *)
(* the summary, and the exit status.  What each URL's download_once calls  *)
(* return is fixed before the run, so a pipeline can be compared with the  *)
(* same pipeline run alone.                                                *)

\* What a URL's download_once calls return: `first` on the first call and
\* `rest` on every later one.
MkFate(first, rest) == [first |-> first, rest |-> rest]

\* A URL that downloads at once, one that is not a video page, one that
\* fails once and then downloads, one that fails once and then is not a
\* video page, and one that always fails retryably (with another error
\* after the first failure).
Fates ==
    {MkFate(OkResult, OkResult),
     MkFate(PlainErr("VideoUrlNotFound"), PlainErr("VideoUrlNotFound")),
     MkFate(NetStatus(503), OkResult),
     MkFate(NetStatus(503), PlainErr("VideoUrlNotFound")),
     MkFate(NetStatus(503), NetStatus(429))}

\* The result of the k-th download_once call for a URL of this fate.
FateResult(fate, k) == IF k = 1 THEN fate.first ELSE fate.rest

\* The configurations run builds: the default backoff, small retry budgets
\* and concurrency caps, and --max-retries MaxRetries with one download at
\* a time.  run raises a --max-concurrent of 0 to 1.
RunConfigs ==
    {MkConfig(r, U64(125, 2), c) : r \in 0..MaxFanRetries, c \in 1..MaxConcurrent}
    \cup {MkConfig(MaxRetries, U64(125, 2), 1)}

RunActive == {i \in 1..Len(r_urls) : r_state[i] \in {"attempting", "backoff"}}

\* A line on stdout or stderr.
Line(stream, kind, url, err) ==
    [stream |-> stream, kind |-> kind, url |-> url, err |-> err]

\* The line the loop over the reports prints for one report.
report_line(report) ==
    IF report.result = OkResult
    THEN Line("stdout", "Downloaded", report.url, NoError)
    ELSE Line("stderr", "Failed", report.url, report.result)

\* Error::DownloadSummary { succeeded, failed }
DownloadSummary(succeeded, failed) ==
    [kind |-> "DownloadSummary", succeeded |-> succeeded, failed |-> failed]

\* run returning Ok(()) whatever the counts.
summary_result_always_ok(succeeded, failed) == OkResult

\* The value run returns after the summary line.
summary_result(succeeded, failed) ==
    IF failed > 0 THEN DownloadSummary(succeeded, failed) ELSE OkResult

\* main: exit(1) on an error, a normal return otherwise.
exit_status(ret) == IF ret = OkResult THEN 0 ELSE 1

\* The buffered stream pulls the next URL and starts its download_one.
RunStart ==
    /\ r_pc = "downloading"
    /\ r_started < Len(r_urls)
    /\ CanStart(Cardinality(RunActive), r_cfg)
    /\ r_started' = r_started + 1
    /\ r_state' = [r_state EXCEPT ![r_started + 1] = "attempting"]
    /\ UNCHANGED <<r_urls, r_cfg, r_fate, r_pc, r_calls, r_results, r_reports,
                   r_lines, r_succeeded, r_failed, r_ret, r_exit, notRun>>

\* The future of input index i runs download_once once; when download_one
\* returns, (idx, report) is pushed onto results.  A panic in download_one
\* unwinds through download_all, run and main.
RunAttempt(i) ==
    /\ r_pc = "downloading"
    /\ r_state[i] = "attempting"
    /\ \E nxt \in AfterOnce(r_cfg, r_calls[i],
                            FateResult(r_fate[i], r_calls[i] + 1)) :
          /\ r_calls' = [r_calls EXCEPT ![i] = @ + 1]
          /\ r_state' = [r_state EXCEPT
                            ![i] = IF nxt.pc \in {"ok", "failed"} THEN "done"
                                   ELSE nxt.pc]
          /\ r_pc' = IF nxt.pc = "panicked" THEN "panicked" ELSE r_pc
          /\ r_results' =
                IF nxt.pc \in {"ok", "failed"}
                THEN Append(r_results,
                            [idx |-> i - 1,
                             report |-> DownloadReport(r_urls[i], nxt.ret)])
                ELSE r_results
    /\ UNCHANGED <<r_urls, r_cfg, r_fate, r_started, r_reports, r_lines,
                   r_succeeded, r_failed, r_ret, r_exit, notRun>>

\* The backoff sleep of input index i ends.
RunWake(i) ==
    /\ r_pc = "downloading"
    /\ r_state[i] = "backoff"
    /\ r_state' = [r_state EXCEPT ![i] = "attempting"]
    /\ UNCHANGED <<r_urls, r_cfg, r_fate, r_pc, r_started, r_calls, r_results,
                   r_reports, r_lines, r_succeeded, r_failed, r_ret, r_exit,
                   notRun>>

\* The stream is exhausted: download_all sorts by index and returns.
RunReturn ==
    /\ r_pc = "downloading"
    /\ r_started = Len(r_urls)
    /\ RunActive = {}
    /\ r_reports' = CollectReports(sort_by_key(r_results))
    /\ r_pc' = "printing"
    /\ UNCHANGED <<r_urls, r_cfg, r_fate, r_started, r_state, r_calls,
                   r_results, r_lines, r_succeeded, r_failed, r_ret, r_exit,
                   notRun>>

\* One pass of `for report in &reports`.
RunPrint ==
    /\ r_pc = "printing"
    /\ Len(r_lines) < Len(r_reports)
    /\ LET report == r_reports[Len(r_lines) + 1]
       IN  /\ r_lines' = Append(r_lines, report_line(report))
           /\ r_succeeded' = IF report.result = OkResult THEN r_succeeded + 1
                             ELSE r_succeeded
           /\ r_failed' = IF report.result = OkResult THEN r_failed
                          ELSE r_failed + 1
    /\ UNCHANGED <<r_urls, r_cfg, r_fate, r_pc, r_started, r_state, r_calls,
                   r_results, r_reports, r_ret, r_exit, notRun>>

\* After the loop: the summary line, and run returns.
RunSummary ==
    /\ r_pc = "printing"
    /\ Len(r_lines) = Len(r_reports)
    /\ r_lines' = Append(r_lines, Line("stdout", "Summary", "", NoError))
    /\ r_ret' = summary_result(r_succeeded, r_failed)
    /\ r_pc' = "returned"
    /\ UNCHANGED <<r_urls, r_cfg, r_fate, r_started, r_state, r_calls,
                   r_results, r_reports, r_succeeded, r_failed, r_exit, notRun>>

\* main: an error of run is printed on stderr and the process exits.
RunExit ==
    /\ r_pc = "returned"
    /\ r_lines' = IF r_ret = OkResult THEN r_lines
                  ELSE Append(r_lines, Line("stderr", "Error", "", r_ret))
    /\ r_exit' = exit_status(r_ret)
    /\ r_pc' = "exited"
    /\ UNCHANGED <<r_urls, r_cfg, r_fate, r_started, r_state, r_calls,
                   r_results, r_reports, r_succeeded, r_failed, r_ret, notRun>>

NextRun ==
    \/ RunStart
    \/ \E i \in 1..Len(r_urls) : RunAttempt(i)
    \/ \E i \in 1..Len(r_urls) : RunWake(i)
    \/ RunReturn
    \/ RunPrint
    \/ RunSummary
    \/ RunExit

----------------------------------------------------------------------------
(* download_one with the steps of download_once inside: every attempt runs *)
(* the actions of download_once from its first statement, and the file at  *)
(* the output path stays as the attempt before left it.  (When a later     *)
(* attempt's descriptor names another path, the content kept stands for    *)
(* whatever file lies at that path.)                                       *)

TryConfigs == {MkConfig(r, U64(125, 2), 1) : r \in 0..MaxTryRetries}

\* download_once has returned and the match of download_one acts on its
\* result: return it, panic, or start the backoff sleep.
TryReturn ==
    /\ one_pc = "attempting"
    /\ oc_pc = "done"
    /\ \E nxt \in AfterOnce(one_cfg, one_attempt, oc_ret) :
          /\ one_pc' = nxt.pc
          /\ one_attempt' = nxt.attempt
          /\ one_calls' = one_calls + 1
          /\ one_err' = IF oc_ret = OkResult THEN one_err ELSE oc_ret
          /\ one_ret' = nxt.ret
          /\ one_slept' = IF nxt.pc \in {"backoff", "panicked"}
                          THEN nxt.slept ELSE one_slept
          /\ one_sleeps' = IF nxt.pc = "backoff" THEN one_sleeps + 1
                           ELSE one_sleeps
    /\ UNCHANGED <<one_cfg, onceVars, allVars, hlsVars, notTry, tryVars>>

\* A loop that goes on from the descriptor of the attempt before.
TryWakeResume ==
    /\ one_pc = "backoff"
    /\ one_pc' = "attempting"
    /\ oc_pc' = IF oc_desc = NoDescriptor THEN "extract" ELSE "mkdir"
    /\ oc_chunks' = 0
    /\ oc_direct' = 0
    /\ oc_direct_err' = NoError
    /\ oc_status' = 0
    /\ oc_hls' = 0
    /\ oc_ret' = NoError
    /\ try_before' = oc_file
    /\ UNCHANGED <<oc_url, oc_desc, oc_path, oc_file, one_cfg, one_attempt,
                   one_calls, one_sleeps, one_slept, one_err, one_ret, allVars,
                   hlsVars, notTry>>

\* The backoff sleep ends and the loop calls download_once again: a new
\* call with new locals, on the file system as it is.
TryWake ==
    /\ one_pc = "backoff"
    /\ one_pc' = "attempting"
    /\ oc_pc' = "extract"
    /\ oc_desc' = NoDescriptor
    /\ oc_path' = <<>>
    /\ oc_chunks' = 0
    /\ oc_direct' = 0
    /\ oc_direct_err' = NoError
    /\ oc_status' = 0
    /\ oc_hls' = 0
    /\ oc_ret' = NoError
    /\ try_before' = oc_file
    /\ UNCHANGED <<oc_url, oc_file, one_cfg, one_attempt, one_calls,
                   one_sleeps, one_slept, one_err, one_ret, allVars, hlsVars,
                   notTry>>

NextTry ==
    \/ OnceExtract
    \/ OnceCreateDir
    \/ BinarySend
    \/ BinaryChunk
    \/ OnceHls
    \/ TryReturn
    \/ TryWake

----------------------------------------------------------------------------
(* Initial states.  A specification starts the variables of the function   *)
(* it runs and holds the other groups at their idle values.                *)

IdleOne ==
    /\ one_cfg = MkConfig(0, U64Zero, 1)
    /\ one_pc = "idle"
    /\ one_attempt = 0
    /\ one_calls = 0
    /\ one_sleeps = 0
    /\ one_slept = NoSleep
    /\ one_err = NoError
    /\ one_ret = NoError

IdleOnce ==
    /\ oc_url = <<>>
    /\ oc_pc = "idle"
    /\ oc_desc = NoDescriptor
    /\ oc_path = <<>>
    /\ oc_file = NoFile
    /\ oc_chunks = 0
    /\ oc_direct = 0
    /\ oc_direct_err = NoError
    /\ oc_status = 0
    /\ oc_hls = 0
    /\ oc_ret = NoError

IdleHls ==
    /\ h_playlist = <<>>
    /\ h_pc = "idle"
    /\ h_line = 0
    /\ h_file = NoFile
    /\ h_had_segment = FALSE
    /\ h_segment_count = 0
    /\ h_fetched = <<>>
    /\ h_ret = NoError

IdleAll ==
    /\ urls = <<>>
    /\ cfg = MkConfig(0, U64Zero, 1)
    /\ da_pc = "idle"
    /\ started = 0
    /\ pc = <<>>
    /\ attempt = <<>>
    /\ results = <<>>
    /\ reports = <<>>

IdleVariant ==
    /\ sv_playlist = <<>>
    /\ sv_pc = "idle"
    /\ sv_pos = 0
    /\ sv_best = None
    /\ sv_count = 0
    /\ sv_ret = None

IdleCore == IdleOne /\ IdleAll /\ IdleOnce /\ IdleHls

IdleExtract ==
    /\ ex_url = <<>>
    /\ ex_cfg = MkConfig(0, U64Zero, 1)
    /\ ex_pc = "idle"
    /\ ex_pipe = "idle"
    /\ ex_attempt = 0
    /\ ex_requests = 0
    /\ ex_status = 0
    /\ ex_html = None
    /\ ex_parsed = NotParsed
    /\ ex_ret = NoError

IdleCalls ==
    /\ call_fn = "none"
    /\ call_pc = "idle"
    /\ call_in = <<>>
    /\ call_out = None

IdleFiles ==
    /\ cli_file = <<>>
    /\ gathered = NotGathered
    /\ w_cfg = MkConfig(0, U64Zero, 1)
    /\ w_pc = "idle"
    /\ w_started = 0
    /\ w_state = <<>>

IdleRun ==
    /\ r_urls = <<>>
    /\ r_cfg = MkConfig(0, U64Zero, 1)
    /\ r_fate = <<>>
    /\ r_pc = "idle"
    /\ r_started = 0
    /\ r_state = <<>>
    /\ r_calls = <<>>
    /\ r_results = <<>>
    /\ r_reports = <<>>
    /\ r_lines = <<>>
    /\ r_succeeded = 0
    /\ r_failed = 0
    /\ r_ret = NoError
    /\ r_exit = -1

IdleTry == try_before = NoFile

IdleRest ==
    IdleVariant /\ IdleExtract /\ IdleCalls /\ IdleFiles /\ IdleRun /\ IdleTry

InitTry ==
    /\ IdleVariant
    /\ IdleExtract
    /\ IdleCalls
    /\ IdleFiles
    /\ IdleRun
    /\ IdleAll
    /\ IdleHls
    /\ one_cfg \in TryConfigs
    /\ one_pc = "attempting"
    /\ one_attempt = 0
    /\ one_calls = 0
    /\ one_sleeps = 0
    /\ one_slept = NoSleep
    /\ one_err = NoError
    /\ one_ret = NoError
    /\ oc_url \in ShareUrls
    /\ oc_pc = "extract"
    /\ oc_desc = NoDescriptor
    /\ oc_path = <<>>
    /\ oc_file \in {NoFile, OldFile}
    /\ oc_chunks = 0
    /\ oc_direct = 0
    /\ oc_direct_err = NoError
    /\ oc_status = 0
    /\ oc_hls = 0
    /\ oc_ret = NoError
    /\ try_before = oc_file

InitRun ==
    /\ IdleCore
    /\ IdleTry
    /\ IdleVariant
    /\ IdleExtract
    /\ IdleCalls
    /\ IdleFiles
    /\ r_urls \in SeqsUpTo(Urls, MaxRunUrls) \ {<<>>}
    /\ r_cfg \in RunConfigs
    /\ r_fate \in [1..Len(r_urls) -> Fates]
    /\ r_pc = "downloading"
    /\ r_started = 0
    /\ r_state = [i \in 1..Len(r_urls) |-> "queued"]
    /\ r_calls = [i \in 1..Len(r_urls) |-> 0]
    /\ r_results = <<>>
    /\ r_reports = <<>>
    /\ r_lines = <<>>
    /\ r_succeeded = 0
    /\ r_failed = 0
    /\ r_ret = NoError
    /\ r_exit = -1

InitFiles ==
    /\ IdleCore
    /\ IdleRun
    /\ IdleTry
    /\ IdleVariant
    /\ IdleExtract
    /\ IdleCalls
    /\ cli_file \in SeqsUpTo(FileLines, MaxFileLines)
    /\ gathered = NotGathered
    /\ w_cfg \in FilesConfigs
    /\ w_pc = "gather"
    /\ w_started = 0
    /\ w_state = <<>>

InitCalls ==
    /\ IdleCore
    /\ IdleRun
    /\ IdleTry
    /\ IdleFiles
    /\ IdleVariant
    /\ IdleExtract
    /\ call_fn \in {"guess_video_id", "sanitize_component", "build_output_path",
                    "extract_attribute"}
    /\ call_in \in CallInputs(call_fn)
    /\ call_pc = "called"
    /\ call_out = None

InitExtract ==
    /\ IdleCore
    /\ IdleRun
    /\ IdleTry
    /\ IdleFiles
    /\ IdleVariant
    /\ IdleCalls
    /\ ex_url \in ExtractUrls
    /\ ex_cfg \in ExtractConfigs
    /\ ex_pc = "check"
    /\ ex_pipe = "attempting"
    /\ ex_attempt = 0
    /\ ex_requests = 0
    /\ ex_status = 0
    /\ ex_html = None
    /\ ex_parsed = NotParsed
    /\ ex_ret = NoError

InitVariant ==
    /\ IdleCore
    /\ IdleRun
    /\ IdleTry
    /\ IdleFiles
    /\ IdleExtract
    /\ IdleCalls
    /\ sv_playlist \in SeqsUpTo(MasterLines, MaxVariantLines)
    /\ sv_pc = "scan"
    /\ sv_pos = 0
    /\ sv_best = None
    /\ sv_count = 0
    /\ sv_ret = None

InitHls ==
    /\ IdleRest
    /\ IdleOne
    /\ IdleAll
    /\ IdleOnce
    /\ h_playlist \in SeqsUpTo(PlaylistLines, MaxLines)
    /\ h_pc = "create"
    /\ h_line = 0
    /\ h_file \in {NoFile, HlsOldFile}
    /\ h_had_segment = FALSE
    /\ h_segment_count = 0
    /\ h_fetched = <<>>
    /\ h_ret = NoError

InitOnce ==
    /\ IdleRest
    /\ IdleHls
    /\ IdleOne
    /\ IdleAll
    /\ oc_url \in ShareUrls
    /\ oc_pc = "extract"
    /\ oc_desc = NoDescriptor
    /\ oc_path = <<>>
    /\ oc_file \in {NoFile, OldFile}
    /\ oc_chunks = 0
    /\ oc_direct = 0
    /\ oc_direct_err = NoError
    /\ oc_status = 0
    /\ oc_hls = 0
    /\ oc_ret = NoError

InitOne ==
    /\ IdleRest
    /\ IdleHls
    /\ IdleAll
    /\ IdleOnce
    /\ one_cfg \in OneConfigs
    /\ one_pc = "attempting"
    /\ one_attempt = 0
    /\ one_calls = 0
    /\ one_sleeps = 0
    /\ one_slept = NoSleep
    /\ one_err = NoError
    /\ one_ret = NoError

Init ==
    /\ IdleRest
    /\ urls \in SeqsUpTo(Urls, MaxUrls)
    /\ cfg \in FanConfigs
    /\ da_pc = "running"
    /\ started = 0
    /\ pc = [i \in 1..Len(urls) |-> "queued"]
    /\ attempt = [i \in 1..Len(urls) |-> 0]
    /\ results = <<>>
    /\ reports = <<>>
    /\ IdleHls
    /\ IdleOne
    /\ IdleOnce

----------------------------------------------------------------------------
(* Specifications *)

SpecOne == InitOne /\ [][NextOne]_vars

SpecOnce == InitOnce /\ [][NextOnce]_vars

SpecHls == InitHls /\ [][NextHls]_vars

SpecVariant == InitVariant /\ [][NextVariant]_vars

SpecExtract == InitExtract /\ [][NextExtract]_vars

SpecCalls == InitCalls /\ [][NextCalls]_vars

SpecFiles == InitFiles /\ [][NextFiles]_vars

SpecRun == InitRun /\ [][NextRun]_vars

SpecTry == InitTry /\ [][NextTry]_vars

\* The runtime keeps polling: a future that can make a step (a pipeline
\* whose call or sleep has ended, the stream, the loop over the reports)
\* is eventually run.
SpecRunLive == SpecRun /\ WF_vars(NextRun)

Next ==
    \/ StartTask
    \/ \E i \in 1..Len(urls) : TaskAttempt(i)
    \/ \E i \in 1..Len(urls) : TaskWake(i)
    \/ Return

Spec == Init /\ [][Next]_vars

----------------------------------------------------------------------------
(* Properties of download_all (Spec) *)

\* C1: when download_all returns, it returns exactly one report per input
\* URL, and the report at position i carries the URL at input position i,
\* whatever the order in which the pipelines completed.
C1_ReportsInInputOrder ==
    da_pc = "returned" =>
        /\ Len(reports) = Len(urls)
        /\ \A i \in 1..Len(urls) : reports[i].url = urls[i]

\* download_all has returned reports for two different URLs whose pipelines
\* completed in the opposite of input order.
C1_Witness ==
    /\ da_pc = "returned"
    /\ Len(urls) >= 2
    /\ \E j \in 1..Len(results) - 1 :
          /\ results[j].idx > results[j + 1].idx
          /\ results[j].report.url # results[j + 1].report.url

\* C2: at every moment the pipelines started and not yet Succeeded or Failed
\* (attempting or backing off) number at most max_concurrent_downloads, and
\* a URL is started only while fewer than that many are in flight.
C2_ConcurrencyBound ==
    /\ [](Cardinality(Active) <= cfg.max_concurrent_downloads)
    /\ [][started' > started =>
            Cardinality(Active) < cfg.max_concurrent_downloads]_vars

\* The buffer is full (as many pipelines in flight as the cap allows, one of
\* them backing off) while a further URL is still queued.
C2_Witness ==
    /\ da_pc = "running"
    /\ started < Len(urls)
    /\ cfg.max_concurrent_downloads >= 2
    /\ Cardinality(Active) = cfg.max_concurrent_downloads
    /\ \E i \in Active : pc[i] = "backoff"

----------------------------------------------------------------------------
(* Properties of download_one (SpecOne) *)

FatalKinds == {"InvalidUrl", "VideoUrlNotFound", "UnsupportedStream"}

\* A step in which a download_once call fails.
OneAttemptFails == one_calls' = one_calls + 1 /\ one_pc' # "ok"

\* C3: after a failed attempt download_one ends Failed with that error if
\* the error is fatal or the failed attempts exceed max_retries, and
\* otherwise backs off; so when it has stopped after attempts that all
\* failed retryably, it has made exactly max_retries + 1 attempts.
C3_RetryBudget ==
    /\ [][OneAttemptFails =>
            IF ~should_retry(one_err') \/ one_attempt' > one_cfg.max_retries
            THEN one_pc' = "failed" /\ one_ret' = one_err'
            ELSE one_pc' = "backoff"]_vars
    /\ []((one_pc \in {"failed", "panicked"} /\ should_retry(one_err))
            => one_calls = one_cfg.max_retries + 1)
    /\ [](one_calls <= one_cfg.max_retries + 1)

\* C4: an attempt that fails with a fatal error (InvalidUrl,
\* VideoUrlNotFound, UnsupportedStream) ends download_one at once with that
\* error: no backoff sleep is started, and no further attempt follows,
\* whatever max_retries is.
C4_FatalReturnsAtOnce ==
    /\ [][(OneAttemptFails /\ one_err'.kind \in FatalKinds) =>
            /\ one_pc' = "failed"
            /\ one_ret' = one_err'
            /\ one_sleeps' = one_sleeps
            /\ one_slept' = one_slept]_vars
    /\ [][one_pc = "failed" => (one_pc' = "failed" /\ one_calls' = one_calls)]_vars

\* The first attempt failed fatally while retries were still allowed.
C4_Witness ==
    /\ one_pc = "failed"
    /\ one_err.kind = "VideoUrlNotFound"
    /\ one_calls = 1
    /\ one_cfg.max_retries >= 2

\* initial_backoff_ms * 2^(k-1), saturating at 2^64 - 1.
ClaimedBackoff(config, k) == saturating_mul_pow2(config.initial_backoff_ms, k - 1)

\* C5: after the k-th failed attempt, when a retry follows, download_one
\* sleeps initial_backoff_ms * 2^(k-1) ms, saturating at the u64 maximum; it
\* never wraps to a smaller value and never aborts.
C5_BackoffSaturates ==
    (one_pc \in {"backoff", "panicked"}) =>
        /\ one_pc # "panicked"
        /\ one_slept.ms = ClaimedBackoff(one_cfg, one_attempt)

\* C6: a Network error is retried if it is a timeout, a connection failure,
\* a body-read failure, or carries status 429, 403 or 5xx, and is fatal if
\* it carries any other 4xx status.
ClaimedRetryableNetwork(e) ==
    \/ is_timeout(e) \/ is_connect(e) \/ is_body(e)
    \/ (has_status(e) /\ (e.status \in {429, 403} \/ is_server_error(e.status)))

C6_NetworkClassification ==
    (one_err.kind = "Network" /\ one_pc \in {"failed", "backoff", "panicked"}) =>
        /\ (ClaimedRetryableNetwork(one_err) /\ one_attempt <= one_cfg.max_retries)
              => one_pc # "failed"
        /\ (has_status(one_err) /\ is_client_error(one_err.status)
            /\ one_err.status \notin {429, 403})
              => (one_pc = "failed" /\ one_ret = one_err)

\* A 403 was retried and later a 404 ended the call with budget left.
C6_Witness ==
    /\ one_pc = "failed"
    /\ one_err = NetStatus(404)
    /\ one_calls = 2
    /\ one_attempt <= one_cfg.max_retries

----------------------------------------------------------------------------
(* Properties of download_once (SpecOnce) *)

\* Fallback-eligible as the specification words it: HTTP 401, 403, 404, 410,
\* 423 or 451, or a request-construction failure.
ClaimedFallbackEligible(e) ==
    /\ e.kind = "Network"
    /\ \/ (has_status(e) /\ e.status \in {401, 403, 404, 410, 423, 451})
       \/ e.rk = "Builder"

\* The HLS path has been entered in this attempt.
HlsEntered == oc_pc = "hls" \/ oc_hls > 0

\* C7: when the direct download has failed, the HLS path is tried if and
\* only if a play_url is present and the failure is fallback-eligible; in
\* every other case the HLS path is not tried and download_once returns the
\* direct download's own error.
C7_FallbackIffEligible ==
    oc_direct_err # NoError =>
        /\ HlsEntered <=> (is_some(oc_desc.play_url)
                           /\ ClaimedFallbackEligible(oc_direct_err))
        /\ ~HlsEntered => (oc_pc = "done" /\ oc_ret = oc_direct_err)

\* The direct download failed with 404 and the attempt succeeded through the
\* HLS path.
C7_Witness ==
    /\ oc_pc = "done"
    /\ oc_direct_err = NetStatus(404)
    /\ oc_hls = 1
    /\ oc_ret = OkResult

\* The direct download failed with 500 although a play_url was present, and
\* the attempt returned that error without trying the HLS path.
C7_WitnessNotEligible ==
    /\ oc_pc = "done"
    /\ oc_direct_err = NetStatus(500)
    /\ is_some(oc_desc.play_url)
    /\ oc_hls = 0

----------------------------------------------------------------------------
(* Properties of persist_media_playlist (SpecHls) *)

\* The playlist has an #EXT-X-KEY line whose METHOD is not NONE.
HasEncryptedKey(playlist) ==
    \E i \in 1..Len(playlist) :
        /\ starts_with(trim(playlist[i]), <<"#", "E", "X", "T", "-", "X", "-", "K", "E", "Y">>)
        /\ extract_attribute(trim(playlist[i]), <<"M", "E", "T", "H", "O", "D">>) \notin {None, Some(<<"N", "O", "N", "E">>)}

\* The output file was created by this call.
FileCreated == h_line >= 1

\* C8: for a media playlist with an #EXT-X-KEY line whose METHOD is not NONE,
\* at any position, persist_media_playlist fails with UnsupportedStream, and
\* no segment (init or media) is fetched or written to the output file.
C8_EncryptedBeforeAnySegment ==
    HasEncryptedKey(h_playlist) =>
        /\ h_fetched = <<>>
        /\ FileCreated => h_file.data = <<>>
        /\ (h_pc = "done" /\ FileCreated) => h_ret = PlainErr("UnsupportedStream")

\* The URLs of the lines of `playlist` that LineStep takes as `kind`, in
\* document order.
RECURSIVE UrlsOfKind(_, _)
UrlsOfKind(playlist, kind) ==
    IF playlist = <<>> THEN <<>>
    ELSE LET step == LineStep(Head(playlist))
         IN  (IF step.kind = kind THEN <<step.url>> ELSE <<>>)
             \o UrlsOfKind(Tail(playlist), kind)

WholeBytes(srcs) == [k \in 1..Len(srcs) |-> Bytes(srcs[k], TRUE)]

\* C9: when persist_media_playlist succeeds, the output file holds the
\* initialization segment's bytes before the bytes of every media segment,
\* then the media segments' bytes in playlist order, wherever the
\* #EXT-X-MAP line stands in the playlist.
C9_InitBeforeMedia ==
    (h_pc = "done" /\ h_ret = OkResult) =>
        h_file.data = WholeBytes(UrlsOfKind(h_playlist, "init"))
                      \o WholeBytes(UrlsOfKind(h_playlist, "segment"))

IsBlankOrHashLine(line) ==
    trim(line) = <<>> \/ starts_with(trim(line), <<"#">>)
IsKeyLine(line) == starts_with(trim(line), <<"#", "E", "X", "T", "-", "X", "-", "K", "E", "Y">>)
IsMapLine(line) == starts_with(trim(line), <<"#", "E", "X", "T", "-", "X", "-", "M", "A", "P">>)

\* No encryption directive and no segment URI line: only blank and '#' lines.
NoKeyNoSegment(playlist) ==
    \A i \in 1..Len(playlist) :
        IsBlankOrHashLine(playlist[i]) /\ ~IsKeyLine(playlist[i])

\* The bytes of at least one media segment have been written in full.
MediaSegmentWritten ==
    \E k \in 1..Len(h_file.data) :
        /\ h_file.data[k].whole
        /\ \E j \in 1..Len(h_playlist) :
              /\ LineStep(h_playlist[j]).kind = "segment"
              /\ LineStep(h_playlist[j]).url = h_file.data[k].src

\* C10 as stated: a media playlist with no encryption directive and no
\* segment URI line makes persist_media_playlist (once the output file is
\* created) fail with VideoUrlNotFound, and success is never reported
\* without a media segment written.
C10_Original ==
    /\ (h_pc = "done" /\ FileCreated /\ NoKeyNoSegment(h_playlist))
          => h_ret = PlainErr("VideoUrlNotFound")
    /\ (h_pc = "done" /\ h_ret = OkResult) => MediaSegmentWritten

\* The call ended at a #EXT-X-MAP line whose URI did not resolve or whose
\* initialization segment could not be fetched or written.
EndedAtMapLine ==
    /\ h_line \in 1..Len(h_playlist)
    /\ IsMapLine(h_playlist[h_line])
    /\ h_ret.kind \in {"InvalidUrl", "Network", "Io"}

\* C10 (amended): a media playlist with no encryption directive and no
\* segment URI line never makes persist_media_playlist succeed; it fails
\* with VideoUrlNotFound, unless creating the output file failed (Io) or a
\* #EXT-X-MAP line's URI did not resolve (InvalidUrl) or its initialization
\* segment could not be fetched or written (Network, Io), in which case that
\* earlier error is returned.  Success is never reported without a media
\* segment written.
C10_NoSegmentsNeverSucceeds ==
    /\ (h_pc = "done" /\ NoKeyNoSegment(h_playlist)) =>
          /\ h_ret # OkResult
          /\ \/ h_ret = PlainErr("VideoUrlNotFound") /\ h_line > Len(h_playlist)
             \/ h_ret = PlainErr("Io") /\ ~FileCreated
             \/ EndedAtMapLine
    /\ (h_pc = "done" /\ h_ret = OkResult) => MediaSegmentWritten

\* A playlist of a header and an #EXT-X-MAP line only: the initialization
\* segment was fetched and written, and the call failed with
\* VideoUrlNotFound.
C10_Witness ==
    /\ h_pc = "done"
    /\ NoKeyNoSegment(h_playlist)
    /\ h_fetched # <<>>
    /\ h_file.data # <<>>
    /\ h_ret = PlainErr("VideoUrlNotFound")

----------------------------------------------------------------------------
(* Properties of select_best_variant (SpecVariant) *)

IsMarkerLine(line) == starts_with(trim(line), <<"#", "E", "X", "T", "-", "X", "-", "S", "T", "R", "E", "A", "M", "-", "I", "N", "F">>)

\* The attributes of a marker line: the text after the first ':', cut at
\* its commas.  (No line of MasterLines has a comma inside quotes.)
RECURSIVE SplitAt(_, _)
SplitAt(s, sep) ==
    LET at == find(s, <<sep>>)
    IN  IF at = 0 THEN <<s>>
        ELSE <<SubSeq(s, 1, at - 1)>> \o SplitAt(SliceFrom(s, at + 1), sep)

MarkerAttributes(line) ==
    LET colon == find(trim(line), <<":">>)
    IN  IF colon = 0 THEN <<>> ELSE SplitAt(SliceFrom(trim(line), colon + 1), ",")

\* The variant's bandwidth: the unsigned value of the attribute named
\* BANDWIDTH, 0 when there is none or it is not a number.
DeclaredBandwidth(line) ==
    LET attrs == MarkerAttributes(line)
        hits == {k \in 1..Len(attrs) : starts_with(attrs[k], <<"B", "A", "N", "D", "W", "I", "D", "T", "H", "=">>)}
    IN  IF hits = {} THEN 0
        ELSE LET k == CHOOSE k \in hits : \A j \in hits : k <= j
                 v == parse_u64(SliceFrom(attrs[k], Len(<<"B", "A", "N", "D", "W", "I", "D", "T", "H", "=">>) + 1))
             IN  IF v.ok THEN v.val ELSE 0

\* The variants of a master playlist whose URI resolves, in playlist order:
\* every marker line with the first non-blank, non-'#' line after it.
RECURSIVE ResolvedVariants(_, _)
ResolvedVariants(playlist, from) ==
    IF from > Len(playlist) THEN <<>>
    ELSE LET uri_at == next_uri_line(playlist, from)
             r == resolve_segment_url(PlaylistBase, trim(playlist[uri_at]))
         IN  (IF IsMarkerLine(playlist[from]) /\ uri_at # 0 /\ r.err = NoError
              THEN <<[bw |-> DeclaredBandwidth(playlist[from]), url |-> r.url]>>
              ELSE <<>>)
             \o ResolvedVariants(playlist, from + 1)

\* The earliest variant of greatest bandwidth.
BestOf(variants) ==
    LET k == CHOOSE k \in 1..Len(variants) :
                 /\ \A j \in 1..Len(variants) : variants[j].bw <= variants[k].bw
                 /\ \A j \in 1..(k - 1) : variants[j].bw < variants[k].bw
    IN  variants[k]

\* C11: select_best_variant returns the resolved URI of the variant of
\* greatest bandwidth among the variants whose URI resolves, the earliest
\* one when several share the greatest bandwidth (and nothing when no
\* variant resolves).
C11_GreatestBandwidthEarliest ==
    sv_pc = "done" =>
        LET variants == ResolvedVariants(sv_playlist, 1)
        IN  sv_ret = IF variants = <<>> THEN None ELSE Some(BestOf(variants).url)

\* The number of the first line after line `from` that is neither blank
\* nor a '#' line.
FirstUriLineAfter(playlist, from) ==
    LET at == {j \in (from + 1)..Len(playlist) :
                  /\ trim(playlist[j]) # <<>>
                  /\ trim(playlist[j])[1] # "#"}
    IN  CHOOSE j \in at : \A i \in at : j <= i

\* A step of select_best_variant that makes the marker line it is at the
\* new best variant.
NewBest == sv_best' # sv_best

\* C27: the bandwidth select_best_variant assigns to a variant is the
\* unsigned value of the marker line's BANDWIDTH attribute (0 when absent or
\* not a number), also when an attribute whose name ends in BANDWIDTH, such
\* as AVERAGE-BANDWIDTH, stands before it; and the URI paired with it is the
\* first non-blank, non-'#' line after the marker.
C27_BandwidthOfMarker ==
    [][NewBest =>
          /\ IsMarkerLine(sv_playlist[sv_pos + 1])
          /\ sv_best'[1].bw = DeclaredBandwidth(sv_playlist[sv_pos + 1])
          /\ sv_best'[1].url =
                resolve_segment_url(
                    PlaylistBase,
                    trim(sv_playlist[FirstUriLineAfter(sv_playlist, sv_pos + 1)])).url
      ]_vars

\* The same for marker lines without an AVERAGE-BANDWIDTH attribute.
C27_WithoutAverage ==
    [][(NewBest /\ sv_playlist[sv_pos + 1] # LineInfAvg) =>
          /\ IsMarkerLine(sv_playlist[sv_pos + 1])
          /\ sv_best'[1].bw = DeclaredBandwidth(sv_playlist[sv_pos + 1])
          /\ sv_best'[1].url =
                resolve_segment_url(
                    PlaylistBase,
                    trim(sv_playlist[FirstUriLineAfter(sv_playlist, sv_pos + 1)])).url
      ]_vars

----------------------------------------------------------------------------
(* Properties of descriptor extraction (SpecExtract) *)

\* parse_share_page has run in this attempt.
Parsed ==
    /\ ex_pc \in {"returned", "done"}
    /\ is_some(ex_html)
    /\ ex_ret \in {OkResult, PlainErr("VideoUrlNotFound")}

HasNonEmptyUrl(descriptor) ==
    \/ is_some(descriptor.download_url) /\ descriptor.download_url[1] # <<>>
    \/ is_some(descriptor.play_url) /\ descriptor.play_url[1] # <<>>

\* Strategy k yields a structure with a non-empty id and at least one
\* non-empty media URL.
Yields(k) ==
    /\ is_some(ex_parsed.tried[k])
    /\ ex_parsed.tried[k][1].video_id # <<>>
    /\ HasNonEmptyUrl(ex_parsed.tried[k][1])

FirstYielding ==
    IF Yields(1) THEN 1 ELSE IF Yields(2) THEN 2 ELSE IF Yields(3) THEN 3 ELSE 0

\* C12: parse_share_page returns the result of the first strategy, in the
\* order universal-rehydration, item-module map, page-props, that yields a
\* non-empty video id and at least one non-empty media URL; a strategy
\* without a non-empty id does not win.
C12_FirstCompleteStrategyWins ==
    Parsed =>
        /\ ex_parsed.won = FirstYielding
        /\ is_some(ex_parsed.desc) => ex_parsed.desc[1].video_id # <<>>

\* C13: every descriptor extract_video_descriptor returns has a download_url
\* or a play_url that is present and non-empty, so download_once does not
\* take its "neither URL" VideoUrlNotFound branch with it.
C13_DescriptorHasUrl ==
    (ex_pc \in {"returned", "done"} /\ ex_ret = OkResult) =>
        /\ is_some(ex_parsed.desc)
        /\ HasNonEmptyUrl(ex_parsed.desc[1])
        /\ first_source(ex_parsed.desc[1]) # "not_found"

\* A descriptor with a play_url only is returned, from the item-module map.
C13_Witness ==
    /\ ex_pc = "done"
    /\ ex_ret = OkResult
    /\ ex_parsed.won = 2
    /\ ex_parsed.desc[1].download_url = None
    /\ ex_parsed.desc[1].play_url = Some(PlayUrl)

\* The page has a malformed payload and no well-formed one.
MalformedOnly(page) ==
    /\ "malformed" \in {page.universal.kind, page.sigi.kind, page.next.kind}
    /\ "json" \notin {page.universal.kind, page.sigi.kind, page.next.kind}

\* C14: when the share page's embedded JSON payload is malformed, the
\* attempt fails with a Parsing error, and the URL is attempted again while
\* retry budget remains.
C14_MalformedIsParsingError ==
    (ex_pc \in {"returned", "done"} /\ is_some(ex_html)
       /\ MalformedOnly(ex_html[1])) =>
        /\ ex_ret = PlainErr("Parsing")
        /\ (ex_pc = "done" /\ ex_attempt <= ex_cfg.max_retries)
              => ex_pipe # "failed"

\* C15: when the share page is fetched with a 2xx status and none of the
\* three strategies yields a descriptor, extract_video_descriptor fails
\* with VideoUrlNotFound.
C15_NoStrategyIsNotFound ==
    (/\ ex_pc \in {"returned", "done"}
     /\ ex_status \in 200..299
     /\ is_some(ex_html)
     /\ \A k \in 1..3 : ex_parsed.tried[k] = None)
        => ex_ret = PlainErr("VideoUrlNotFound")

\* A 200 page with payloads for all three strategies, none of them
\* yielding a descriptor.
C15_Witness ==
    /\ ex_pc = "returned"
    /\ ex_status = 200
    /\ ex_html = Some(MkPage(Json(Some(ItemNoVideo)),
                             Json({[key |-> <<"9">>, item |-> ItemPlay],
                                   [key |-> <<"8">>, item |-> ItemNoVideo]}),
                             Json(Some(ItemEmptyUrls))))
    /\ ex_ret = PlainErr("VideoUrlNotFound")

\* The share URL has no occurrence of the text tiktok.com.
NotOurHost == find(ex_url, <<"t", "i", "k", "t", "o", "k", ".", "c", "o", "m">>) = 0

\* C16: for a share URL that does not contain 'tiktok.com',
\* extract_video_descriptor returns InvalidUrl without issuing any HTTP
\* request, and the URL's pipeline ends Failed after that single attempt.
C16_ForeignHostFailsAtOnce ==
    NotOurHost =>
        /\ ex_requests = 0
        /\ ex_pc \in {"check", "returned", "done"}
        /\ ex_pc \in {"returned", "done"} => ex_ret = PlainErr("InvalidUrl")
        /\ ex_pc = "done" => (ex_pipe = "failed" /\ ex_attempt = 1)

\* The pipeline of a foreign URL has ended, with retry budget left over.
C16_Witness ==
    /\ NotOurHost
    /\ ex_pc = "done"
    /\ ex_pipe = "failed"
    /\ ex_cfg.max_retries >= 1

----------------------------------------------------------------------------
(* Properties of guess_video_id, sanitize_component and build_output_path  *)
(* (SpecCalls)                                                             *)

Returned(fn) == call_fn = fn /\ call_pc = "returned"

\* The URL's non-empty path segments.
NonEmptySegments(share_url) ==
    SelectSeq(path_segments(share_url).segments, LAMBDA seg : seg # <<>>)

\* The segment after the first 'video' or 'note' segment that has a
\* successor; without one, the last non-empty segment; without any, nothing.
ClaimedVideoId(share_url) ==
    LET segs == NonEmptySegments(share_url)
        marked == {k \in 1..Len(segs) :
                      segs[k] \in {<<"v", "i", "d", "e", "o">>, <<"n", "o", "t", "e">>} /\ k < Len(segs)}
    IN  IF marked # {}
        THEN Some(segs[(CHOOSE k \in marked : \A j \in marked : k <= j) + 1])
        ELSE IF segs # <<>> THEN Some(segs[Len(segs)])
        ELSE None

\* C17: guess_video_id returns the segment that follows the first 'video'
\* or 'note' segment having a successor, among the URL's non-empty path
\* segments; the last non-empty segment if there is no such pair; nothing
\* when there are no non-empty segments.
C17_GuessVideoId ==
    Returned("guess_video_id") => call_out = ClaimedVideoId(call_in)

\* /video/note/7: two marked segments with a successor, the first one wins.
C17_Witness ==
    /\ Returned("guess_video_id")
    /\ call_in = <<"h", "t", "t", "p", "s", ":", "/", "/", "w", "w", "w", ".", "t", "i", "k", "t", "o", "k", ".", "c", "o", "m", "/", "v", "i", "d", "e", "o", "/", "n", "o", "t", "e", "/", "7">>
    /\ call_out = Some(<<"n", "o", "t", "e">>)

AllowedChar(c) ==
    c \in Digits \cup LowerCase \cup UpperCase \cup {"-", "_", "."}

\* The order-preserving subsequence of `s` made of its allowed characters.
RECURSIVE KeepAllowed(_)
KeepAllowed(s) ==
    IF s = <<>> THEN <<>>
    ELSE (IF AllowedChar(Head(s)) THEN <<Head(s)>> ELSE <<>>)
         \o KeepAllowed(Tail(s))

\* C18: sanitize_component returns a string of ASCII alphanumerics, '-',
\* '_' and '.' only, which is exactly the order-preserving subsequence of
\* the input made of those characters; applying it twice equals applying
\* it once.
C18_SanitizeIsAllowedSubsequence ==
    Returned("sanitize_component") =>
        /\ \A k \in 1..Len(call_out) : AllowedChar(call_out[k])
        /\ call_out = KeepAllowed(call_in)
        /\ sanitize_component(call_out) = call_out

\* An input with a letter outside ASCII, a kept character and a separator.
C18_Witness ==
    /\ Returned("sanitize_component")
    /\ call_in = <<"é", "a", "/">>
    /\ call_out = <<"a">>

\* C19: build_output_path returns '<A>/<V>.mp4', V the sanitized video id
\* and A the sanitized author, or 'unknown' when the sanitized author is
\* empty; when the sanitized video id is empty it returns InvalidUrl.
C19_OutputPathShape ==
    Returned("build_output_path") =>
        LET video == KeepAllowed(call_in.video_id)
            author == KeepAllowed(call_in.author)
        IN  IF video = <<>>
            THEN call_out.err = PlainErr("InvalidUrl")
            ELSE /\ call_out.err = NoError
                 /\ call_out.path =
                        (IF author = <<>> THEN <<"u", "n", "k", "n", "o", "w", "n">> ELSE author)
                        \o <<"/">> \o video \o <<".", "m", "p", "4">>

\* An author that sanitizes to nothing: the directory is 'unknown'.
C19_Witness ==
    /\ Returned("build_output_path")
    /\ call_in.author = <<"@", "/">>
    /\ call_in.video_id = <<"a", "/">>
    /\ call_out.path = <<"u", "n", "k", "n", "o", "w", "n", "/", "a", ".", "m", "p", "4">>

\* The components of a relative path: the pieces between its separators.
Components(path) == split(path, "/")

DotNames == {<<".">>, <<".", ".">>}

ends_with(s, suffix) ==
    /\ Len(s) >= Len(suffix)
    /\ SubSeq(s, Len(s) - Len(suffix) + 1, Len(s)) = suffix

\* C31: every path build_output_path returns is a relative path of exactly
\* two components, a directory and a file name ending in '.mp4', neither of
\* them '.' or '..': the output file lies inside the working directory.
C31_PathInsideWorkingDirectory ==
    (Returned("build_output_path") /\ call_out.err = NoError) =>
        LET parts == Components(call_out.path)
        IN  /\ Len(parts) = 2
            /\ parts[1] # <<>>
            /\ ends_with(parts[2], <<".", "m", "p", "4">>)
            /\ parts[1] \notin DotNames
            /\ parts[2] \notin DotNames

\* The same without the condition on the directory: two components, and a
\* file name that ends in '.mp4' and is neither '.' nor '..'.
C31_FileNameShape ==
    (Returned("build_output_path") /\ call_out.err = NoError) =>
        LET parts == Components(call_out.path)
        IN  /\ Len(parts) = 2
            /\ parts[1] # <<>>
            /\ ends_with(parts[2], <<".", "m", "p", "4">>)
            /\ parts[2] \notin DotNames

----------------------------------------------------------------------------
(* Properties of the pipelines' output files (SpecFiles) *)

\* C20: for every URL list that gather_urls accepts and every interleaving
\* of the pipelines, no two pipelines have the same output path open for
\* writing at the same time.
C20_OutputFileExclusive ==
    \A i, j \in 1..Len(w_state) :
        (i # j /\ w_state[i] = "writing" /\ w_state[j] = "writing")
            => output_path(i) # output_path(j)

----------------------------------------------------------------------------
(* Properties of run and download_all with fixed download_once results     *)
(* (SpecRun)                                                               *)

\* What download_one alone makes of a fate: the results it can return after
\* `att` failed attempts, Panicked where the loop panics instead.
Panicked == PlainErr("panicked")

RECURSIVE AloneResults(_, _, _)
AloneResults(config, fate, att) ==
    UNION {IF nxt.pc \in {"ok", "failed"} THEN {nxt.ret}
           ELSE IF nxt.pc = "panicked" THEN {Panicked}
           ELSE AloneResults(config, fate, nxt.attempt)
           : nxt \in AfterOnce(config, att, FateResult(fate, att + 1))}

\* C21: a failure in one URL's pipeline never cancels or alters another
\* URL's pipeline: every report carries the result its URL's pipeline would
\* have had alone, and the download phase never ends while a URL whose own
\* pipeline has not ended is left queued, attempting or backing off.
C21_PipelinesIndependent ==
    /\ \A k \in 1..Len(r_results) :
          r_results[k].report.result
             \in AloneResults(r_cfg, r_fate[r_results[k].idx + 1], 0)
    /\ r_pc # "downloading" =>
          \A i \in 1..Len(r_urls) : r_state[i] \in {"done", "panicked"}

\* The positions of the failure reports.
FailedReports == {k \in 1..Len(r_reports) : r_reports[k].result # OkResult}

\* C24: after download_all has returned N reports, the program prints one
\* line per report (in report order, naming the report's URL), counts
\* succeeded + failed = N, prints the summary, and run returns the
\* DownloadSummary error, the process exiting non-zero, if and only if at
\* least one report is a failure.
C24_SummaryAndExit ==
    /\ r_pc \in {"returned", "exited"} =>
          /\ Len(r_lines) >= Len(r_reports) + 1
          /\ \A k \in 1..Len(r_reports) :
                /\ r_lines[k].url = r_reports[k].url
                /\ r_lines[k].kind = IF k \in FailedReports THEN "Failed"
                                     ELSE "Downloaded"
          /\ r_lines[Len(r_reports) + 1].kind = "Summary"
          /\ r_succeeded + r_failed = Len(r_reports)
          /\ r_failed = Cardinality(FailedReports)
          /\ r_ret = IF FailedReports # {}
                     THEN DownloadSummary(r_succeeded, r_failed)
                     ELSE OkResult
    /\ r_pc = "exited" => (r_exit # 0 <=> FailedReports # {})
    /\ r_pc \in {"downloading", "printing", "returned"} => r_exit = -1

\* The process has exited non-zero after one URL downloaded and the other
\* failed.
C24_Witness ==
    /\ r_pc = "exited"
    /\ Len(r_reports) = 2
    /\ r_reports[1].result = OkResult
    /\ r_reports[2].result = PlainErr("VideoUrlNotFound")
    /\ r_succeeded = 1
    /\ r_failed = 1
    /\ r_exit = 1

\* The result of the last download_once call made for input index i.
LastResult(i) == FateResult(r_fate[i], r_calls[i])

\* C26: every URL whose pipeline has ended, Succeeded or Failed, has exactly
\* one report; the report names the URL, is a success if and only if the
\* URL's last attempt succeeded, and a failure report carries the error of
\* the last attempt made; download_all returns these reports.
C26_ReportsCarryLastResult ==
    /\ \A i \in 1..Len(r_urls) :
          r_state[i] = "done" =>
             Cardinality({k \in 1..Len(r_results) : r_results[k].idx = i - 1}) = 1
    /\ \A k \in 1..Len(r_results) :
          LET i == r_results[k].idx + 1
          IN  /\ r_state[i] = "done"
              /\ r_results[k].report.url = r_urls[i]
              /\ r_results[k].report.result = LastResult(i)
    /\ r_pc \in {"printing", "returned", "exited"} =>
          r_reports = [i \in 1..Len(r_urls) |->
                          [url |-> r_urls[i], result |-> LastResult(i)]]

\* download_all has returned the report of a URL that failed retryably with
\* 503 and then failed with VideoUrlNotFound on its second attempt: the
\* report carries the second error.
C26_Witness ==
    /\ r_pc = "printing"
    /\ \E i \in 1..Len(r_urls) :
          /\ r_calls[i] = 2
          /\ r_fate[i].first = NetStatus(503)
          /\ r_reports[i].result = PlainErr("VideoUrlNotFound")

\* C30: with max_concurrent_downloads >= 1 and every single attempt
\* terminating, download_all eventually returns with every URL Succeeded or
\* Failed: no URL stays queued, attempting or backing off forever.
C30_DownloadAllReturns ==
    <>(/\ r_pc \in {"printing", "returned", "exited"}
       /\ \A i \in 1..Len(r_urls) : r_state[i] = "done")

----------------------------------------------------------------------------
(* Properties of gather_urls (SpecFiles) *)

\* The numbers of the file lines that are neither blank nor comments.
KeptLines(lines) ==
    {k \in 1..Len(lines) :
        /\ trim(lines[k]) # <<>>
        /\ trim(lines[k])[1] # "#"}

\* Of these, the ones that differ from the kept line before them.
CollapsedLines(lines) ==
    {k \in KeptLines(lines) :
        \A j \in KeptLines(lines) :
            (j < k /\ \A m \in KeptLines(lines) : ~(j < m /\ m < k))
                => trim(lines[j]) # trim(lines[k])}

\* The elements of a set of numbers in ascending order.
RECURSIVE Ascending(_)
Ascending(set) ==
    IF set = {} THEN <<>>
    ELSE LET least == CHOOSE x \in set : \A y \in set : x <= y
         IN  <<least>> \o Ascending(set \ {least})

ClaimedUrls(lines) ==
    LET ks == Ascending(CollapsedLines(lines))
    IN  [n \in 1..Len(ks) |-> trim(lines[ks[n]])]

\* C22: gather_urls on a URL file returns the trimmed lines that are
\* non-blank and do not start with '#', in file order, consecutive equal
\* entries collapsed to one and non-consecutive duplicates kept; when no
\* line survives it returns EmptyUrlFile.
C22_GatherUrls ==
    w_pc \notin {"idle", "gather"} =>
        IF KeptLines(cli_file) = {}
        THEN gathered.err = PlainErr("EmptyUrlFile") /\ w_pc = "exit"
        ELSE /\ gathered.err = NoError
             /\ gathered.urls = ClaimedUrls(cli_file)

\* gather_urls has returned two URLs from the file " A ", A, B: the
\* first two lines, equal once trimmed, collapsed to one.
C22_Witness ==
    /\ w_pc = "running"
    /\ cli_file = <<<<" ">> \o UrlA \o <<" ">>, UrlA, UrlB>>
    /\ gathered.urls = <<UrlA, UrlB>>

----------------------------------------------------------------------------
(* Properties of extract_attribute (SpecCalls) *)

\* The text after the first "KEY=" of the line.
AfterKey(line, attribute) ==
    SliceFrom(line, find(line, attribute \o <<"=">>) + Len(attribute) + 1)

\* The text before the first character of `stops` in s, all of s if none.
UpToFirst(s, stops) ==
    LET at == {p \in 1..Len(s) : s[p] \in stops}
    IN  IF at = {} THEN s
        ELSE SubSeq(s, 1, (CHOOSE p \in at : \A q \in at : p <= q) - 1)

\* The value the attribute has: between the quotes if it opens with a
\* quote, up to the first comma or space otherwise.
ClaimedValue(line, attribute) ==
    LET after == AfterKey(line, attribute)
    IN  IF starts_with(after, <<"\"">>)
        THEN UpToFirst(Tail(after), {"\""})
        ELSE UpToFirst(after, {",", " "})

\* The line has the attribute, and a quoted value has its closing quote.
HasValue(line, attribute) ==
    /\ find(line, attribute \o <<"=">>) # 0
    /\ starts_with(AfterKey(line, attribute), <<"\"">>)
          => find(Tail(AfterKey(line, attribute)), <<"\"">>) # 0

\* C23: extract_attribute(line, KEY) returns the value of attribute KEY: for
\* a quoted value the text between the two quotes, for an unquoted value the
\* text up to the first comma, the first space or the end of the line,
\* whichever comes first.
C23_ExtractAttribute ==
    (Returned("extract_attribute") /\ HasValue(call_in.line, call_in.attribute))
        => call_out = Some(ClaimedValue(call_in.line, call_in.attribute))

----------------------------------------------------------------------------
(* Properties of download_binary inside download_once (SpecOnce) *)

is_success(status) == status >= 200 /\ status <= 299

\* A step in which download_binary receives a response.
DirectResponse == oc_direct' = oc_direct + 1 /\ oc_status' # 0

\* C28: when the response of the direct download is non-2xx, download_binary
\* returns a Network error before it creates or truncates the output file:
\* the file at the output path is as it was before the request.
C28_NonSuccessLeavesFile ==
    [][(DirectResponse /\ ~is_success(oc_status')) =>
          /\ oc_direct_err'.kind = "Network"
          /\ oc_file' = oc_file]_vars

\* The same for the statuses error_for_status_ref rejects, 4xx and 5xx.
C28_ErrorStatusLeavesFile ==
    [][(DirectResponse /\ error_for_status(oc_status') # NoError) =>
          /\ oc_direct_err'.kind = "Network"
          /\ oc_file' = oc_file]_vars

----------------------------------------------------------------------------
(* Properties of download_one with download_once inside (SpecTry) *)

\* A step that starts a download_once call after a backoff sleep.
NewAttempt == one_pc = "backoff" /\ one_pc' = "attempting"

\* Steps in which download_binary and download_hls_stream are called.
DirectTried == oc_direct' = oc_direct + 1
HlsTried == oc_hls' = oc_hls + 1

\* C25: every attempt of download_one runs the pipeline again from the
\* extraction of the descriptor; within one attempt the direct download_url,
\* when present, is tried before the HLS path, the HLS path is entered at
\* most once, and with only a play_url the attempt goes to the HLS path
\* without any direct download.
C25_AttemptOrder ==
    /\ [][NewAttempt =>
             /\ oc_pc' = "extract"
             /\ oc_desc' = NoDescriptor
             /\ oc_direct' = 0
             /\ oc_hls' = 0]_vars
    /\ [][(DirectTried \/ HlsTried) => oc_desc # NoDescriptor]_vars
    /\ [][DirectTried =>
             /\ is_some(oc_desc.download_url)
             /\ oc_direct = 0
             /\ oc_hls = 0]_vars
    /\ [][HlsTried =>
             /\ is_some(oc_desc.play_url)
             /\ oc_hls = 0
             /\ oc_direct = IF is_some(oc_desc.download_url) THEN 1 ELSE 0]_vars

\* The second attempt has gone through the direct download and then the HLS
\* path, after a first attempt that failed.
C25_Witness ==
    /\ one_attempt = 1
    /\ oc_pc = "done"
    /\ oc_direct = 1
    /\ oc_hls = 1
    /\ oc_ret = OkResult

\* The bytes the final source of the current attempt has written: the
\* stream of the HLS path if it was entered, the chunks of the direct body
\* otherwise.
FinalSourceBytes ==
    IF oc_hls > 0 THEN <<"hls">> ELSE [k \in 1..oc_chunks |-> "direct"]

\* C29: whenever download_one returns success, the content of the output
\* file is exactly the bytes written by the final source of the successful
\* attempt; what the file held before, and the partial bytes of earlier
\* failed attempts and of a failed direct download, are gone.
C29_FileIsFinalSource ==
    one_pc = "ok" =>
        /\ oc_file.exists
        /\ oc_file.data = FinalSourceBytes

\* download_one has returned success from a second attempt that found the
\* partial bytes of the first one in the file and downloaded a body of two
\* chunks.
C29_Witness ==
    /\ one_pc = "ok"
    /\ one_attempt = 1
    /\ try_before = MkFile(TRUE, <<"direct">>)
    /\ oc_hls = 0
    /\ oc_chunks = 2
    /\ oc_file.data = <<"direct", "direct">>

=============================================================================
